---- MODULE Spec2Model ----
(***************************************************************************)
(* Subscription lifecycle and connection handling of the Disguise          *)
(* LiveUpdate module (class DisguiseInstance, src/src/index.ts, and the    *)
(* liveUpdateVariable feedback, src/src/feedbacks.ts).                     *)
(*                                                                         *)
(* Every method of the class is an operator from a state record to a state *)
(* record; an action applies one handler, whole, to the current state.     *)
(***************************************************************************)
EXTENDS Integers, Sequences, FiniteSets, TLC

VARIABLES
  phase,                       \* "constructed" | "running" | "destroyed"
  ws,                          \* this.ws: "null" or the socket's readyState
  connectionReady,             \* this.connectionReady
  shouldReconnect,             \* this.shouldReconnect
  reconnectTimer,              \* this.reconnectTimer: "none" | "armed" | "fired"
  reconnectTimers,             \* event loop: reconnect timeouts set, not cleared, not yet run
  pendingCleanupTimer,         \* this.pendingCleanupTimer: "none" | "armed" | "fired"
  pendingCleanupTimers,        \* event loop: sweep timeouts set, not cleared, not yet run
  sweepLeft,                   \* ticks left until the armed sweep timer is due
  subscriptions,               \* this.subscriptions: id -> LiveUpdateSubscription
  feedbackIdToSubscriptionId,  \* this.feedbackIdToSubscriptionId
  pendingSubscriptions,        \* this.pendingSubscriptions: key -> pending entry
  feedbackOptionsCache,        \* this.feedbackOptionsCache
  variableDefinitions,         \* dynamic variable ids last given to setVariableDefinitions
  connection_status,           \* the module variable connection_status
  feedbacks,                   \* Companion: the placed liveUpdateVariable feedbacks
  toCheck,                     \* Companion: feedbacks whose callback is due
  sendFault,                   \* socket: sends that still succeed before ws.send throws
  sent,                        \* frames written to the socket by the last step
  varsSet,                     \* setVariableValues calls of the last step, per variable
  lastOp,                      \* the handler the last step ran
  sendThrew,                   \* history: what send() left behind where it threw in the last step
  errRun,                      \* history: consecutive error updates seen per Active id
  recovered,                   \* history: Active ids whose last good update came one error
                               \* short of the threshold
  tripped,                     \* history: the entries (id, requestor) whose run reached the
                               \* threshold in the last step
  forced                       \* history: requestors unsubscribed by the error threshold

vars == << phase, ws, connectionReady, shouldReconnect, reconnectTimer,
           reconnectTimers, pendingCleanupTimer, pendingCleanupTimers, sweepLeft,
           subscriptions,
           feedbackIdToSubscriptionId, pendingSubscriptions,
           feedbackOptionsCache, variableDefinitions, connection_status,
           feedbacks, toCheck, sendFault, sent, varsSet, lastOp, sendThrew,
           errRun, recovered, tripped, forced >>

----------------------------------------------------------------------------
(* Bounds and input domains *)

MaxSnapshot == 2          \* longest subscriptions snapshot the server sends
MaxUpdates == 3           \* longest valuesChanged list the server sends
MaxSendsBeforeFault == 1  \* a socket fault lets at most this many sends through first

ErrorThreshold == 3       \* errorCount >= 3 unsubscribes
PendingTimeout == 2       \* config.pendingSubscriptionTimeout, in clock ticks
NoFault == 0 - 1          \* sendFault: ws.send does not throw

FeedbackIds == {"f1", "f2"}
SubIds == {1, 2}
VarNames == {"a", "b"}
VarNameSeq == << "a", "b" >>
ObjectPaths == {"track:track_1", "screen2:screen_1"}
PropertyPaths == {"object.lengthInBeats"}

\* The option sets a liveUpdateVariable feedback is placed or edited with.
Options ==
  { [variableName |-> "a", objectPath |-> "track:track_1", propertyPath |-> "object.lengthInBeats"],
    [variableName |-> "b", objectPath |-> "track:track_1", propertyPath |-> "object.lengthInBeats"],
    [variableName |-> "b", objectPath |-> "screen2:screen_1", propertyPath |-> "object.lengthInBeats"] }

\* option sets in which the variable name follows the path
SmallOptions ==
  { o \in Options : (o.variableName = "a") = (o.objectPath = "track:track_1") }

Undefined == "undefined"
NumberValue == "120"                        \* a primitive value
ObjectValue == "array [1,2]"                \* a composite value
ErrorValue == "object {errorType,message}"  \* an error object of Disguise
TextValue == "string playing"               \* a primitive value
BooleanValue == "boolean true"              \* a primitive value
Primitives == {NumberValue, TextValue, BooleanValue}
Values == Primitives \cup {ObjectValue, ErrorValue}
TimeStamp == 7                              \* a timestamp of the server
NoTimestamp == 0                            \* changeTimestamp, messageTimestamp undefined

\* `${objectPath}:${propertyPath}`
Key(objectPath, propertyPath) == << objectPath, ":", propertyPath >>

SnapshotEntries ==
  [id : SubIds, objectPath : ObjectPaths, propertyPath : PropertyPaths]
ValueUpdates ==
  [id : SubIds, value : Values, changeTimestamp : {TimeStamp}, messageTimestamp : {TimeStamp}]

SeqsUpTo(S, n) == UNION { [1..k -> S] : k \in 0..n }

\* f with x removed from its domain (Map.delete)
Delete(f, x) == [y \in (DOMAIN f) \ {x} |-> f[y]]
\* f with f[x] = v (Map.set)
Put(f, x, v) == [y \in (DOMAIN f) \cup {x} |-> IF y = x THEN v ELSE f[y]]
Empty == << >>

----------------------------------------------------------------------------
(* The state record the handlers work on *)

State ==
  [ phase |-> phase, ws |-> ws, connectionReady |-> connectionReady,
    shouldReconnect |-> shouldReconnect, reconnectTimer |-> reconnectTimer,
    reconnectTimers |-> reconnectTimers,
    pendingCleanupTimer |-> pendingCleanupTimer,
    pendingCleanupTimers |-> pendingCleanupTimers, sweepLeft |-> sweepLeft,
    subscriptions |-> subscriptions,
    feedbackIdToSubscriptionId |-> feedbackIdToSubscriptionId,
    pendingSubscriptions |-> pendingSubscriptions,
    feedbackOptionsCache |-> feedbackOptionsCache,
    variableDefinitions |-> variableDefinitions,
    connection_status |-> connection_status,
    feedbacks |-> feedbacks, toCheck |-> toCheck, sendFault |-> sendFault,
    sent |-> sent, varsSet |-> varsSet, lastOp |-> lastOp, sendThrew |-> sendThrew,
    errRun |-> errRun, recovered |-> recovered, tripped |-> tripped, forced |-> forced ]

NoVarsSet == [v \in VarNames \cup {"connection_status"} |-> << >>]

\* The state a handler starts from: the outputs of the previous step are gone.
Begin(op) ==
  [State EXCEPT !.sent = << >>, !.varsSet = NoVarsSet, !.lastOp = op,
                !.sendThrew = << >>, !.tripped = {}]

Commit(after) ==
  \E s \in {after} :
    /\ phase' = s.phase
    /\ ws' = s.ws
    /\ connectionReady' = s.connectionReady
    /\ shouldReconnect' = s.shouldReconnect
    /\ reconnectTimer' = s.reconnectTimer
    /\ reconnectTimers' = s.reconnectTimers
    /\ pendingCleanupTimer' = s.pendingCleanupTimer
    /\ pendingCleanupTimers' = s.pendingCleanupTimers
    /\ sweepLeft' = s.sweepLeft
    /\ subscriptions' = s.subscriptions
    /\ feedbackIdToSubscriptionId' = s.feedbackIdToSubscriptionId
    /\ pendingSubscriptions' = s.pendingSubscriptions
    /\ feedbackOptionsCache' = s.feedbackOptionsCache
    /\ variableDefinitions' = s.variableDefinitions
    /\ connection_status' = s.connection_status
    /\ feedbacks' = s.feedbacks
    /\ toCheck' = s.toCheck
    /\ sendFault' = s.sendFault
    /\ sent' = s.sent
    /\ varsSet' = s.varsSet
    /\ lastOp' = s.lastOp
    /\ sendThrew' = s.sendThrew
    /\ errRun' = [i \in DOMAIN s.subscriptions |->
                    IF i \in DOMAIN s.errRun THEN s.errRun[i] ELSE 0]
    /\ recovered' = s.recovered \cap DOMAIN s.subscriptions
    /\ tripped' = s.tripped
    /\ forced' = s.forced

----------------------------------------------------------------------------
(* Frames the client writes to the socket *)

SubscribeFrame(objectPath, propertyPath) ==
  [type |-> "subscribe", object |-> objectPath, properties |-> << propertyPath >>]
UnsubscribeFrame(id) == [type |-> "unsubscribe", id |-> id]
SetFrame(id, value) == [type |-> "set", id |-> id, value |-> value]

----------------------------------------------------------------------------
(* Connection handling: index.ts *)

isConnectionReady(s) == s.connectionReady

\* getSubscriptionByFeedbackId(feedbackId) !== undefined
hasSubscriptionByFeedbackId(s, feedbackId) ==
  /\ feedbackId \in DOMAIN s.feedbackIdToSubscriptionId
  /\ s.feedbackIdToSubscriptionId[feedbackId] \in DOMAIN s.subscriptions

\* getSubscriptionValueByFeedbackId(feedbackId)
getSubscriptionValueByFeedbackId(s, feedbackId) ==
  IF hasSubscriptionByFeedbackId(s, feedbackId)
  THEN s.subscriptions[s.feedbackIdToSubscriptionId[feedbackId]].value
  ELSE Undefined

\* getSubscriptionByFeedbackId(feedbackId), where it is defined
getSubscriptionByFeedbackId(s, feedbackId) ==
  s.subscriptions[s.feedbackIdToSubscriptionId[feedbackId]]

\* this.setVariableValues({ [name]: value })
setVariableValue(s, name, value) ==
  [s EXCEPT !.varsSet[name] = Append(@, value),
            !.connection_status = IF name = "connection_status" THEN value ELSE @]

updateVariableDefinitions(s) ==
  [s EXCEPT !.variableDefinitions =
     { s.subscriptions[i].variableName : i \in DOMAIN s.subscriptions }]

\* clearTimeout of a timeout that has run already clears nothing
stopReconnectTimer(s) ==
  [s EXCEPT !.reconnectTimer = "none",
            !.reconnectTimers = IF s.reconnectTimer = "armed" THEN @ - 1 ELSE @]

\* clearTimeout of a timeout that has run already clears nothing
clearPendingCleanupTimer(s) ==
  [s EXCEPT !.pendingCleanupTimer = "none",
            !.pendingCleanupTimers = IF s.pendingCleanupTimer = "armed" THEN @ - 1 ELSE @,
            !.sweepLeft = 0]

disconnect(s) ==
  LET s1 == clearPendingCleanupTimer(stopReconnectTimer(s))
  IN [s1 EXCEPT !.ws = "null",
                !.sendFault = NoFault,
                !.forced = {},
                !.subscriptions = Empty,
                !.feedbackIdToSubscriptionId = Empty,
                !.pendingSubscriptions = Empty,
                !.feedbackOptionsCache = Empty]

\* a scheduleReconnect that cancels the timer and arms none
scheduleReconnectUnarmed(s) == stopReconnectTimer(s)

\* a scheduleReconnect that arms a timer without cancelling the one before
scheduleReconnectStacking(s) ==
  IF ~s.shouldReconnect THEN s
  ELSE [s EXCEPT !.reconnectTimer = "armed", !.reconnectTimers = @ + 1]

scheduleReconnect(s) ==
  IF ~s.shouldReconnect THEN s
  ELSE [stopReconnectTimer(s) EXCEPT !.reconnectTimer = "armed",
                                     !.reconnectTimers = @ + 1]

\* What a send() that threw in state s has left behind when it returns:
\* tracked is the number of entries the tables held when it was called.
Observed(s, closed, returned) ==
  [ shouldReconnect |-> s.shouldReconnect,
    tracked |-> Cardinality(DOMAIN s.subscriptions)
                  + Cardinality(DOMAIN s.pendingSubscriptions),
    returned |-> returned,
    ws |-> closed.ws,
    subscriptions |-> closed.subscriptions,
    feedbackIdToSubscriptionId |-> closed.feedbackIdToSubscriptionId,
    pendingSubscriptions |-> closed.pendingSubscriptions,
    pendingCleanupTimer |-> closed.pendingCleanupTimer,
    reconnectTimer |-> closed.reconnectTimer ]

\* The value send() returns when called in state s.
sendReturns(s) == s.ws = "OPEN" /\ s.sendFault # 0

send(s, message) ==
  IF s.ws = "OPEN"
  THEN IF s.sendFault # 0
       THEN [s EXCEPT !.sent = Append(@, message),
                      !.sendFault = IF @ > 0 THEN @ - 1 ELSE @]
       ELSE LET closed == scheduleReconnect(disconnect(s))
            IN [closed EXCEPT
                 !.sendThrew = Append(@, Observed(s, closed, sendReturns(s)))]
  ELSE s

\* a connect that replaces the socket without disconnect()
connectKeepingTables(s, ctorThrows) ==
  IF ctorThrows THEN scheduleReconnect(s)
  ELSE [s EXCEPT !.ws = "CONNECTING"]

\* connect(); ctorThrows: new WebSocket(url) throws
connect(s, ctorThrows) ==
  LET s1 == IF s.ws # "null" THEN disconnect(s) ELSE s
  IN IF ctorThrows THEN scheduleReconnect(s1)
     ELSE [s1 EXCEPT !.ws = "CONNECTING"]

\* applyConfig(config); hostSet: config.host is not empty
applyConfig(s, hostSet, ctorThrows) ==
  IF ~hostSet THEN s
  ELSE connect([s EXCEPT !.variableDefinitions = {}, !.shouldReconnect = TRUE],
               ctorThrows)

configUpdated(s, hostSet, ctorThrows) ==
  applyConfig(disconnect([s EXCEPT !.shouldReconnect = FALSE]), hostSet, ctorThrows)

\* a destroy that leaves the reconnect timer running
destroyKeepingReconnectTimer(s) ==
  [s EXCEPT !.phase = "destroyed",
            !.shouldReconnect = FALSE,
            !.connectionReady = FALSE,
            !.pendingCleanupTimer = "none",
            !.pendingCleanupTimers = IF s.pendingCleanupTimer = "armed" THEN @ - 1 ELSE @,
            !.sweepLeft = 0,
            !.ws = "null",
            !.sendFault = NoFault,
            !.forced = {},
            !.toCheck = {},
            !.subscriptions = Empty,
            !.feedbackIdToSubscriptionId = Empty,
            !.pendingSubscriptions = Empty,
            !.feedbackOptionsCache = Empty]

destroy(s) ==
  [s EXCEPT !.phase = "destroyed",
            !.shouldReconnect = FALSE,
            !.connectionReady = FALSE,
            !.reconnectTimer = "none",
            !.reconnectTimers = IF s.reconnectTimer = "armed" THEN @ - 1 ELSE @,
            !.pendingCleanupTimer = "none",
            !.pendingCleanupTimers = IF s.pendingCleanupTimer = "armed" THEN @ - 1 ELSE @,
            !.sweepLeft = 0,
            !.ws = "null",
            !.sendFault = NoFault,
            !.forced = {},
            !.toCheck = {},
            !.subscriptions = Empty,
            !.feedbackIdToSubscriptionId = Empty,
            !.pendingSubscriptions = Empty,
            !.feedbackOptionsCache = Empty]

----------------------------------------------------------------------------
(* Outward API: index.ts *)

\* a subscribe that registers the request whatever the socket does
subscribeToVariableUnguarded(s, feedbackId, variableName, objectPath, propertyPath) ==
  setVariableValue(
    [send(s, SubscribeFrame(objectPath, propertyPath)) EXCEPT
       !.pendingSubscriptions =
         Put(@, Key(objectPath, propertyPath),
             [feedbackId |-> feedbackId, variableName |-> variableName, age |-> 0])],
    variableName, "...")

subscribeToVariable(s, feedbackId, variableName, objectPath, propertyPath) ==
  IF s.ws # "OPEN" THEN s
  ELSE LET s1 == send(s, SubscribeFrame(objectPath, propertyPath))
       IN IF ~sendReturns(s) THEN s1
          ELSE setVariableValue(
                 [s1 EXCEPT !.pendingSubscriptions =
                    Put(@, Key(objectPath, propertyPath),
                        [feedbackId |-> feedbackId, variableName |-> variableName,
                         age |-> 0])],
                 variableName, "...")

\* an unsubscribe that forgets the Pending entries of the requestor
unsubscribeFromVariableKeepingPending(s, feedbackId) ==
  LET known == feedbackId \in DOMAIN s.feedbackIdToSubscriptionId
      subscriptionId == s.feedbackIdToSubscriptionId[feedbackId]
      cleanUp(t) ==
        updateVariableDefinitions(
          [t EXCEPT !.subscriptions = Delete(@, subscriptionId),
                    !.feedbackIdToSubscriptionId = Delete(@, feedbackId)])
  IN IF ~known THEN s
     ELSE IF s.ws # "OPEN" THEN cleanUp(s)
     ELSE cleanUp(send(s, UnsubscribeFrame(subscriptionId)))

\* an unsubscribe that leaves the index entry of the requestor
unsubscribeFromVariableKeepingIndex(s, feedbackId) ==
  LET known == feedbackId \in DOMAIN s.feedbackIdToSubscriptionId
      subscriptionId == s.feedbackIdToSubscriptionId[feedbackId]
      s1 == [s EXCEPT !.pendingSubscriptions =
               [k \in { k \in DOMAIN @ : @[k].feedbackId # feedbackId } |-> @[k]]]
      cleanUp(t) ==
        updateVariableDefinitions([t EXCEPT !.subscriptions = Delete(@, subscriptionId)])
  IN IF ~known THEN s1
     ELSE IF s1.ws # "OPEN" THEN cleanUp(s1)
     ELSE cleanUp(send(s1, UnsubscribeFrame(subscriptionId)))

unsubscribeFromVariable(s, feedbackId) ==
  LET known == feedbackId \in DOMAIN s.feedbackIdToSubscriptionId
      subscriptionId == s.feedbackIdToSubscriptionId[feedbackId]
      s1 == [s EXCEPT !.pendingSubscriptions =
               [k \in { k \in DOMAIN @ : @[k].feedbackId # feedbackId } |-> @[k]]]
      cleanUp(t) ==
        updateVariableDefinitions(
          [t EXCEPT !.subscriptions = Delete(@, subscriptionId),
                    !.feedbackIdToSubscriptionId = Delete(@, feedbackId)])
  IN IF ~known THEN s1
     ELSE IF s1.ws # "OPEN" THEN cleanUp(s1)
     ELSE cleanUp(send(s1, UnsubscribeFrame(subscriptionId)))

\* a setProperty that does not look the id up
setPropertyUnchecked(s, id, value) ==
  IF s.ws # "OPEN" THEN s
  ELSE send(s, SetFrame(id, value))

setProperty(s, id, value) ==
  IF s.ws # "OPEN" THEN s
  ELSE IF id \notin DOMAIN s.subscriptions THEN s
  ELSE send(s, SetFrame(id, value))

\* setPropertyByPath(objectPath, propertyPath, value): the states it may leave.
\* The loop takes the first Active entry with these paths in the order of the
\* Map, which the table of the model does not keep: any of them may be first.
setPropertyByPath(s, objectPath, propertyPath, value) ==
  LET matching == { id \in DOMAIN s.subscriptions :
                      /\ s.subscriptions[id].objectPath = objectPath
                      /\ s.subscriptions[id].propertyPath = propertyPath }
  IN IF s.ws # "OPEN" \/ matching = {} THEN {s}
     ELSE { setProperty(s, subscriptionId, value) : subscriptionId \in matching }

\* a checkAndUpdateSubscription that subscribes for changed options without
\* unsubscribing first
checkAndUpdateSubscriptionNoTeardown(s, feedbackId, variableName, objectPath, propertyPath) ==
  LET isCached == feedbackId \in DOMAIN s.feedbackOptionsCache
      cached == s.feedbackOptionsCache[feedbackId]
      existingSubscription == hasSubscriptionByFeedbackId(s, feedbackId)
      options == [variableName |-> variableName, objectPath |-> objectPath,
                  propertyPath |-> propertyPath]
      s1 == [s EXCEPT !.feedbackOptionsCache = Put(@, feedbackId, options)]
  IN IF ~isCached
     THEN IF ~existingSubscription /\ isConnectionReady(s1)
          THEN subscribeToVariable(s1, feedbackId, variableName, objectPath, propertyPath)
          ELSE s1
     ELSE IF cached # options
     THEN subscribeToVariable(s1, feedbackId, variableName, objectPath, propertyPath)
     ELSE IF ~existingSubscription /\ isConnectionReady(s)
     THEN subscribeToVariable(s, feedbackId, variableName, objectPath, propertyPath)
     ELSE s

\* a checkAndUpdateSubscription whose self-healing does not look for the
\* Active entry of the requestor
checkAndUpdateSubscriptionAlwaysHealing(s, feedbackId, variableName, objectPath, propertyPath) ==
  LET isCached == feedbackId \in DOMAIN s.feedbackOptionsCache
      cached == s.feedbackOptionsCache[feedbackId]
      existingSubscription == hasSubscriptionByFeedbackId(s, feedbackId)
      options == [variableName |-> variableName, objectPath |-> objectPath,
                  propertyPath |-> propertyPath]
      s1 == [s EXCEPT !.feedbackOptionsCache = Put(@, feedbackId, options)]
  IN IF ~isCached
     THEN IF ~existingSubscription /\ isConnectionReady(s1)
          THEN subscribeToVariable(s1, feedbackId, variableName, objectPath, propertyPath)
          ELSE s1
     ELSE IF cached # options
     THEN subscribeToVariable(unsubscribeFromVariable(s1, feedbackId),
                              feedbackId, variableName, objectPath, propertyPath)
     ELSE IF isConnectionReady(s)
     THEN subscribeToVariable(s, feedbackId, variableName, objectPath, propertyPath)
     ELSE s

checkAndUpdateSubscription(s, feedbackId, variableName, objectPath, propertyPath) ==
  LET isCached == feedbackId \in DOMAIN s.feedbackOptionsCache
      cached == s.feedbackOptionsCache[feedbackId]
      existingSubscription == hasSubscriptionByFeedbackId(s, feedbackId)
      options == [variableName |-> variableName, objectPath |-> objectPath,
                  propertyPath |-> propertyPath]
      s1 == [s EXCEPT !.feedbackOptionsCache = Put(@, feedbackId, options)]
  IN IF ~isCached
     THEN IF ~existingSubscription /\ isConnectionReady(s1)
          THEN subscribeToVariable(s1, feedbackId, variableName, objectPath, propertyPath)
          ELSE s1
     ELSE IF cached # options
     THEN subscribeToVariable(unsubscribeFromVariable(s1, feedbackId),
                              feedbackId, variableName, objectPath, propertyPath)
     ELSE IF ~existingSubscription /\ isConnectionReady(s)
     THEN subscribeToVariable(s, feedbackId, variableName, objectPath, propertyPath)
     ELSE s

----------------------------------------------------------------------------
(* Incoming frames: index.ts *)

\* checkFeedbacks(): Companion re-evaluates the callback of every placed feedback
checkFeedbacks(s) == [s EXCEPT !.toCheck = DOMAIN s.feedbacks]

\* a loop body that keeps an entry only when its key is Pending
reconcileEntryPendingOnly(old, acc, sub) ==
  LET key == Key(sub.objectPath, sub.propertyPath)
      hasExisting == sub.id \in DOMAIN old
      pending == acc.pendingSubscriptions[key]
  IN IF key \in DOMAIN acc.pendingSubscriptions
     THEN [acc EXCEPT
            !.newSubscriptions =
              Put(@, sub.id,
                  [id |-> sub.id, objectPath |-> sub.objectPath,
                   propertyPath |-> sub.propertyPath,
                   feedbackId |-> pending.feedbackId,
                   variableName |-> pending.variableName,
                   value |-> IF hasExisting THEN old[sub.id].value ELSE Undefined,
                   changeTimestamp |->
                     IF hasExisting THEN old[sub.id].changeTimestamp ELSE NoTimestamp,
                   messageTimestamp |->
                     IF hasExisting THEN old[sub.id].messageTimestamp ELSE NoTimestamp,
                   errorCount |-> 0]),
            !.newFeedbackMap = Put(@, pending.feedbackId, sub.id),
            !.pendingSubscriptions = Delete(@, key),
            !.promoted = @ \cup {sub.id}]
     ELSE acc

\* One pass of the loop of handleSubscriptionsUpdate: acc holds
\* newSubscriptions, newFeedbackMap and this.pendingSubscriptions.
reconcileEntry(old, acc, sub) ==
  LET key == Key(sub.objectPath, sub.propertyPath)
      hasExisting == sub.id \in DOMAIN old
      pending == acc.pendingSubscriptions[key]
  IN IF key \in DOMAIN acc.pendingSubscriptions
     THEN [acc EXCEPT
            !.newSubscriptions =
              Put(@, sub.id,
                  [id |-> sub.id, objectPath |-> sub.objectPath,
                   propertyPath |-> sub.propertyPath,
                   feedbackId |-> pending.feedbackId,
                   variableName |-> pending.variableName,
                   value |-> IF hasExisting THEN old[sub.id].value ELSE Undefined,
                   changeTimestamp |->
                     IF hasExisting THEN old[sub.id].changeTimestamp ELSE NoTimestamp,
                   messageTimestamp |->
                     IF hasExisting THEN old[sub.id].messageTimestamp ELSE NoTimestamp,
                   errorCount |-> 0]),
            !.newFeedbackMap = Put(@, pending.feedbackId, sub.id),
            !.pendingSubscriptions = Delete(@, key),
            !.promoted = @ \cup {sub.id}]
     ELSE IF hasExisting
     THEN [acc EXCEPT
            !.newSubscriptions = Put(@, sub.id, old[sub.id]),
            !.newFeedbackMap = Put(@, old[sub.id].feedbackId, sub.id),
            !.promoted = @ \ {sub.id}]
     ELSE acc

RECURSIVE reconcileLoop(_, _, _)
reconcileLoop(old, acc, subs) ==
  IF subs = << >> THEN acc
  ELSE reconcileLoop(old, reconcileEntry(old, acc, Head(subs)), Tail(subs))

\* a reconciliation that merges the snapshot into the Active table instead of
\* replacing the table
handleSubscriptionsUpdateMerging(s, subs) ==
  LET acc == reconcileLoop(s.subscriptions,
                           [newSubscriptions |-> s.subscriptions,
                            newFeedbackMap |-> s.feedbackIdToSubscriptionId,
                            pendingSubscriptions |-> s.pendingSubscriptions,
                            promoted |-> {}],
                           subs)
  IN updateVariableDefinitions(checkFeedbacks(
       [s EXCEPT !.subscriptions = acc.newSubscriptions,
                 !.feedbackIdToSubscriptionId = acc.newFeedbackMap,
                 !.pendingSubscriptions = acc.pendingSubscriptions,
                 !.errRun = [i \in (DOMAIN @) \ acc.promoted |-> @[i]],
                 !.recovered = @ \ acc.promoted]))

handleSubscriptionsUpdate(s, subs) ==
  LET acc == reconcileLoop(s.subscriptions,
                           [newSubscriptions |-> Empty, newFeedbackMap |-> Empty,
                            pendingSubscriptions |-> s.pendingSubscriptions,
                            promoted |-> {}],
                           subs)
  IN updateVariableDefinitions(checkFeedbacks(
       [s EXCEPT !.subscriptions = acc.newSubscriptions,
                 !.feedbackIdToSubscriptionId = acc.newFeedbackMap,
                 !.pendingSubscriptions = acc.pendingSubscriptions,
                 !.errRun = [i \in (DOMAIN @) \ acc.promoted |-> @[i]],
                 !.recovered = @ \ acc.promoted]))

\* value && typeof value === 'object' && value.errorType
isErrorObject(value) == value = ErrorValue

\* JSON.stringify of a composite value
JSONstringify(value) == IF value = ObjectValue THEN "text [1,2]" ELSE value

\* displayValue: primitives as they are, composites as JSON text
displayValue(value) ==
  IF value \in {ObjectValue, ErrorValue} THEN JSONstringify(value) ELSE value

reachedThresholdLate(errorCount) == errorCount > ErrorThreshold
\* subscription.errorCount >= 3
reachedThreshold(errorCount) == errorCount >= ErrorThreshold

afterGoodUpdateKept(errorCount) == errorCount
\* subscription.errorCount = 0
afterGoodUpdate(errorCount) == 0

\* One pass of the loop of handleValuesChanged: st.s is the instance,
\* st.changedVars the record of variables to set.
applyValueUpdate(st, valueUpdate) ==
  LET s == st.s
      id == valueUpdate.id
      old == s.subscriptions[id]
      subscription == [old EXCEPT !.value = valueUpdate.value,
                                  !.changeTimestamp = valueUpdate.changeTimestamp,
                                  !.messageTimestamp = valueUpdate.messageTimestamp]
      errorCount == old.errorCount + 1
      run == s.errRun[id] + 1
      counted == [s EXCEPT !.subscriptions[id] =
                             [subscription EXCEPT !.errorCount = errorCount],
                           !.errRun[id] = run,
                           !.tripped =
                             IF run = ErrorThreshold
                             THEN @ \cup {[id |-> id, feedbackId |-> old.feedbackId]}
                             ELSE @]
      unsubscribed ==
        LET s1 == send([counted EXCEPT !.forced = @ \cup {old.feedbackId}],
                       UnsubscribeFrame(id))
        IN updateVariableDefinitions(
             [s1 EXCEPT !.subscriptions = Delete(@, id),
                        !.feedbackIdToSubscriptionId = Delete(@, old.feedbackId)])
  IN IF id \notin DOMAIN s.subscriptions THEN st
     ELSE IF isErrorObject(valueUpdate.value)
     THEN IF reachedThreshold(errorCount)
          THEN [s |-> unsubscribed,
                changedVars |-> Put(st.changedVars, old.variableName,
                                    "PATH_ERROR (unsubscribed)")]
          ELSE [s |-> counted,
                changedVars |-> Put(st.changedVars, old.variableName, "PATH_ERROR")]
     ELSE [s |-> [s EXCEPT !.subscriptions[id] =
                             [subscription EXCEPT !.errorCount = afterGoodUpdate(@)],
                           !.recovered = IF s.errRun[id] = ErrorThreshold - 1
                                         THEN @ \cup {id} ELSE @ \ {id},
                           !.errRun[id] = 0],
           changedVars |-> Put(st.changedVars, old.variableName,
                               displayValue(valueUpdate.value))]

\* a loop that ends at the first update whose id is not Active
RECURSIVE valuesLoopStopAtUnknown(_, _)
valuesLoopStopAtUnknown(st, values) ==
  IF values = << >> THEN st
  ELSE IF Head(values).id \notin DOMAIN st.s.subscriptions THEN st
  ELSE valuesLoopStopAtUnknown(applyValueUpdate(st, Head(values)), Tail(values))

RECURSIVE valuesLoop(_, _)
valuesLoop(st, values) ==
  IF values = << >> THEN st
  ELSE valuesLoop(applyValueUpdate(st, Head(values)), Tail(values))

\* this.setVariableValues(changedVars)
RECURSIVE setVariableValues(_, _, _)
setVariableValues(s, changedVars, i) ==
  IF i > Len(VarNameSeq) THEN s
  ELSE setVariableValues(
         IF VarNameSeq[i] \in DOMAIN changedVars
         THEN setVariableValue(s, VarNameSeq[i], changedVars[VarNameSeq[i]])
         ELSE s,
         changedVars, i + 1)

handleValuesChanged(s, values) ==
  LET st == valuesLoop([s |-> s, changedVars |-> Empty], values)
  IN checkFeedbacks(setVariableValues(st.s, st.changedVars, 1))

\* an error handling that drops the Pending entry without telling its requestor
handleErrorSilent(s, matched, objectPath, propertyPath) ==
  IF matched
  THEN [s EXCEPT !.pendingSubscriptions = Delete(@, Key(objectPath, propertyPath))]
  ELSE s

\* handleMessage on {"error": ...}: matched is TRUE when the text has the form
\* "Unable to subscribe to <objectPath> / <propertyPath> - ..."
handleError(s, matched, objectPath, propertyPath) ==
  LET key == Key(objectPath, propertyPath)
  IN IF matched /\ key \in DOMAIN s.pendingSubscriptions
     THEN setVariableValue([s EXCEPT !.pendingSubscriptions = Delete(@, key)],
                           s.pendingSubscriptions[key].variableName, "ERROR")
     ELSE s

\* Parsed frames. A payload is absent (or falsy), a truthy value that cannot be
\* iterated (a number, an object), or a list; an item of a list is an entry, or
\* null (reading a field of it throws), or a value without fields (a character
\* of a string payload, an empty object).
NullItem == [item |-> "null"]
EmptyItem == [item |-> "no fields"]
AbsentPayload == [kind |-> "absent"]
NotIterable == [kind |-> "notIterable"]
ListPayload(items) == [kind |-> "list", items |-> items]
NoError == [present |-> FALSE]
Unparseable == [parses |-> FALSE]

\* the position of the first null item of items, 0 when there is none
firstNull(items) ==
  IF \E n \in DOMAIN items : items[n] = NullItem
  THEN CHOOSE n \in DOMAIN items :
         /\ items[n] = NullItem
         /\ \A m \in 1..(n - 1) : items[m] # NullItem
  ELSE 0

\* the items the loops act on: for an item without fields both loops find no
\* Active entry (subscriptions.get(undefined)) and no Pending key and go on
withFields(items) == SelectSeq(items, LAMBDA e : e # EmptyItem)

\* handleSubscriptionsUpdate(message.subscriptions) as handleMessage calls it:
\* the state it leaves and whether it threw. The loop deletes the Pending
\* entries it matches as it goes; the tables are assigned after the loop.
subscriptionsPayload(s, payload) ==
  IF payload.kind = "absent" THEN [s |-> s, threw |-> FALSE]
  ELSE IF payload.kind = "notIterable" THEN [s |-> s, threw |-> TRUE]
  ELSE LET n == firstNull(payload.items)
           acc == reconcileLoop(s.subscriptions,
                                [newSubscriptions |-> Empty, newFeedbackMap |-> Empty,
                                 pendingSubscriptions |-> s.pendingSubscriptions,
                                 promoted |-> {}],
                                withFields(SubSeq(payload.items, 1, n - 1)))
       IN IF n = 0
          THEN [s |-> handleSubscriptionsUpdate(s, withFields(payload.items)),
                threw |-> FALSE]
          ELSE [s |-> [s EXCEPT !.pendingSubscriptions = acc.pendingSubscriptions],
                threw |-> TRUE]

\* handleValuesChanged(message.valuesChanged) as handleMessage calls it: the
\* loop changes the entries as it goes; the variables are set after the loop.
valuesChangedPayload(s, payload) ==
  IF payload.kind = "absent" THEN [s |-> s, threw |-> FALSE]
  ELSE IF payload.kind = "notIterable" THEN [s |-> s, threw |-> TRUE]
  ELSE LET n == firstNull(payload.items)
       IN IF n = 0
          THEN [s |-> handleValuesChanged(s, withFields(payload.items)),
                threw |-> FALSE]
          ELSE [s |-> valuesLoop([s |-> s, changedVars |-> Empty],
                                 withFields(SubSeq(payload.items, 1, n - 1))).s,
                threw |-> TRUE]

\* handleMessage(data): what is thrown inside is caught and logged
handleMessage(s, message) ==
  IF ~message.parses THEN s
  ELSE IF message.error.present
  THEN handleError(s, message.error.matched, message.error.objectPath,
                   message.error.propertyPath)
  ELSE LET s1 == subscriptionsPayload(s, message.subscriptions)
       IN IF s1.threw THEN s1.s
          ELSE valuesChangedPayload(s1.s, message.valuesChanged).s

----------------------------------------------------------------------------
(* The sweep of pending subscriptions: index.ts *)

cleanupPendingSubscriptions(s) ==
  LET expired == { k \in DOMAIN s.pendingSubscriptions :
                     s.pendingSubscriptions[k].age > PendingTimeout }
  IN IF expired = {} THEN s
     ELSE updateVariableDefinitions(
            [s EXCEPT !.pendingSubscriptions =
               [k \in (DOMAIN @) \ expired |-> @[k]]])

startPendingCleanupTimer(s) ==
  [s EXCEPT !.pendingCleanupTimer = "armed",
            !.pendingCleanupTimers =
              (IF s.pendingCleanupTimer = "armed" THEN @ - 1 ELSE @) + 1,
            !.sweepLeft = PendingTimeout]

\* the callback of a sweep timeout: this.pendingCleanupTimer keeps its handle
pendingCleanupTimerFired(s) ==
  LET s1 == cleanupPendingSubscriptions(
              [s EXCEPT !.pendingCleanupTimer = IF @ = "armed" THEN "fired" ELSE @,
                        !.pendingCleanupTimers = @ - 1])
  IN IF s1.connectionReady THEN startPendingCleanupTimer(s1) ELSE s1

----------------------------------------------------------------------------
(* The liveUpdateVariable feedback: feedbacks.ts *)

feedbackCallback(s, feedbackId, options) ==
  checkAndUpdateSubscription(s, feedbackId, options.variableName,
                             options.objectPath, options.propertyPath)

feedbackSubscribe(s, feedbackId, options) ==
  LET existingSubscription == getSubscriptionByFeedbackId(s, feedbackId)
      pathsChanged == \/ existingSubscription.objectPath # options.objectPath
                      \/ existingSubscription.propertyPath # options.propertyPath
  IN IF hasSubscriptionByFeedbackId(s, feedbackId)
     THEN IF pathsChanged
          THEN subscribeToVariable(unsubscribeFromVariable(s, feedbackId), feedbackId,
                                   options.variableName, options.objectPath,
                                   options.propertyPath)
          ELSE s
     ELSE subscribeToVariable(s, feedbackId, options.variableName,
                              options.objectPath, options.propertyPath)

feedbackUnsubscribe(s, feedbackId) ==
  unsubscribeFromVariable(
    [s EXCEPT !.feedbackOptionsCache = Delete(@, feedbackId)], feedbackId)

\* subscribeFeedbacks(): the subscribe callback of every placed feedback, in order
RECURSIVE subscribeFeedbacks(_, _)
subscribeFeedbacks(s, order) ==
  IF order = << >> THEN s
  ELSE subscribeFeedbacks(
         feedbackSubscribe(s, Head(order), s.feedbacks[Head(order)]), Tail(order))

----------------------------------------------------------------------------
(* Socket events and timer callbacks: index.ts *)

\* an open handler that leaves this.reconnectTimer as it is
wsOnOpenKeepingReconnectTimer(s, order) ==
  LET s1 == [s EXCEPT !.ws = "OPEN", !.connectionReady = TRUE]
      s2 == setVariableValue(s1, "connection_status", "Connected")
  IN startPendingCleanupTimer(subscribeFeedbacks(s2, order))

wsOnOpen(s, order) ==
  LET s1 == stopReconnectTimer([s EXCEPT !.ws = "OPEN", !.connectionReady = TRUE])
      s2 == setVariableValue(s1, "connection_status", "Connected")
  IN startPendingCleanupTimer(subscribeFeedbacks(s2, order))

\* a close handler that schedules no reconnect
wsOnCloseQuiet(s) ==
  clearPendingCleanupTimer(
    setVariableValue([s EXCEPT !.ws = "CLOSED",
                               !.sendFault = NoFault,
                               !.forced = {},
                               !.connectionReady = FALSE,
                               !.subscriptions = Empty,
                               !.feedbackIdToSubscriptionId = Empty,
                               !.feedbackOptionsCache = Empty],
                     "connection_status", "Disconnected"))

wsOnClose(s) ==
  LET s1 == [s EXCEPT !.ws = "CLOSED",
                      !.sendFault = NoFault,
                      !.forced = {},
                      !.connectionReady = FALSE,
                      !.subscriptions = Empty,
                      !.feedbackIdToSubscriptionId = Empty,
                      !.feedbackOptionsCache = Empty]
      s2 == clearPendingCleanupTimer(
              setVariableValue(s1, "connection_status", "Disconnected"))
  IN IF s2.shouldReconnect THEN scheduleReconnect(s2) ELSE s2

\* the callback of a reconnect timeout: this.reconnectTimer keeps its handle
reconnectTimerFired(s, ctorThrows) ==
  connect([s EXCEPT !.reconnectTimer = IF @ = "armed" THEN "fired" ELSE @,
                    !.reconnectTimers = @ - 1],
          ctorThrows)

\* One clock tick: every pending entry is one tick older, the sweep timer one
\* tick nearer. Ages beyond the timeout are not told apart.
tick(s) ==
  [s EXCEPT !.pendingSubscriptions =
              [k \in DOMAIN @ |->
                 [@[k] EXCEPT !.age = IF @ > PendingTimeout THEN @ ELSE @ + 1]],
            !.sweepLeft = IF @ > 0 THEN @ - 1 ELSE @]

----------------------------------------------------------------------------
(* The state machine *)

Init ==
  /\ phase = "constructed"
  /\ ws = "null"
  /\ connectionReady = FALSE
  /\ shouldReconnect = FALSE
  /\ reconnectTimer = "none"
  /\ reconnectTimers = 0
  /\ pendingCleanupTimer = "none"
  /\ pendingCleanupTimers = 0
  /\ sweepLeft = 0
  /\ subscriptions = Empty
  /\ feedbackIdToSubscriptionId = Empty
  /\ pendingSubscriptions = Empty
  /\ feedbackOptionsCache = Empty
  /\ variableDefinitions = {}
  /\ connection_status = Undefined
  /\ feedbacks = Empty
  /\ toCheck = {}
  /\ sendFault = NoFault
  /\ sent = << >>
  /\ varsSet = NoVarsSet
  /\ lastOp = "new"
  /\ sendThrew = << >>
  /\ errRun = Empty
  /\ recovered = {}
  /\ tripped = {}
  /\ forced = {}

Running == phase = "running"

\* the orders in which Companion may walk the placed feedbacks
Orders(S) ==
  { o \in [1..Cardinality(S) -> S] : \A i, j \in DOMAIN o : i # j => o[i] # o[j] }

\* the snapshots of a server: ids are unique within a snapshot
Snapshots(entries, n) ==
  { subs \in SeqsUpTo(entries, n) :
      \A i, j \in DOMAIN subs : i # j => subs[i].id # subs[j].id }

\* init(config); hosts: whether config.host is set; ctors: whether new WebSocket throws
InitModule(hosts, ctors) ==
  /\ phase = "constructed"
  /\ \E hostSet \in hosts, ctorThrows \in ctors :
       Commit(applyConfig([Begin("init") EXCEPT !.phase = "running"],
                          hostSet, ctorThrows))

ConfigUpdated(hosts, ctors) ==
  /\ Running
  /\ \E hostSet \in hosts, ctorThrows \in ctors :
       Commit(configUpdated(Begin("configUpdated"), hostSet, ctorThrows))

Destroy ==
  /\ Running
  /\ Commit(destroy(Begin("destroy")))

WsOpen ==
  /\ Running
  /\ ws = "CONNECTING"
  /\ \E order \in Orders(DOMAIN feedbacks) : Commit(wsOnOpen(Begin("open"), order))

WsClose ==
  /\ Running
  /\ ws \in {"CONNECTING", "OPEN"}
  /\ Commit(wsOnClose(Begin("close")))

\* the socket goes bad: after n more sends ws.send throws
TransportFault(most) ==
  /\ Running
  /\ ws \in {"CONNECTING", "OPEN"}
  /\ sendFault = NoFault
  /\ \E n \in 0..most :
       Commit([Begin("fault") EXCEPT !.sendFault = n])

ReconnectTimerFired(ctors) ==
  /\ reconnectTimers > 0
  /\ \E ctorThrows \in ctors :
       Commit(reconnectTimerFired(Begin("reconnectTimer"), ctorThrows))

PendingCleanupTimerFired ==
  /\ pendingCleanupTimers > 0
  /\ sweepLeft = 0
  /\ Commit(pendingCleanupTimerFired(Begin("sweep")))

\* Time passes; a timer that is due fires before the next tick.
Tick ==
  /\ Running
  /\ ~(pendingCleanupTimers > 0 /\ sweepLeft = 0)
  /\ Commit(tick(Begin("tick")))

\* Companion: a feedback is placed (subscribe, then its callback is due)
AddFeedback(ids, opts) ==
  /\ Running
  /\ \E f \in ids \ DOMAIN feedbacks, options \in opts :
       Commit(feedbackSubscribe(
                [Begin("addFeedback") EXCEPT !.feedbacks = Put(@, f, options),
                                             !.toCheck = @ \cup {f},
                                             !.forced = @ \ {f}],
                f, options))

\* Companion: the options of a feedback are edited (unsubscribe, subscribe)
EditFeedback(opts) ==
  /\ Running
  /\ \E f \in DOMAIN feedbacks : \E options \in opts \ {feedbacks[f]} :
       Commit(feedbackSubscribe(
                feedbackUnsubscribe(
                  [Begin("editFeedback") EXCEPT !.feedbacks = Put(@, f, options),
                                                !.toCheck = @ \cup {f},
                                                !.forced = @ \ {f}],
                  f),
                f, options))

\* Companion: a feedback is removed
RemoveFeedback ==
  /\ Running
  /\ \E f \in DOMAIN feedbacks :
       Commit(feedbackUnsubscribe(
                [Begin("removeFeedback") EXCEPT !.feedbacks = Delete(@, f),
                                                  !.toCheck = @ \ {f},
                                                  !.forced = @ \ {f}],
                f))

\* Companion: the callback of a feedback that is due runs
EvaluateFeedback ==
  /\ Running
  /\ \E f \in toCheck :
       Commit(feedbackCallback([Begin("callback") EXCEPT !.toCheck = @ \ {f}],
                               f, feedbacks[f]))

\* the outward API, called directly
SubscribeToVariable(ids, opts) ==
  /\ Running
  /\ \E f \in ids, options \in opts :
       Commit(subscribeToVariable(
                [Begin("subscribeToVariable") EXCEPT !.forced = @ \ {f}],
                f, options.variableName, options.objectPath, options.propertyPath))

UnsubscribeFromVariable(ids) ==
  /\ Running
  /\ \E f \in ids :
       Commit(unsubscribeFromVariable(Begin("unsubscribeFromVariable"), f))

CheckAndUpdateSubscription(ids, opts) ==
  /\ Running
  /\ \E f \in ids, options \in opts :
       Commit(checkAndUpdateSubscription(
                [Begin("checkAndUpdateSubscription") EXCEPT !.forced = @ \ {f}],
                f, options.variableName, options.objectPath, options.propertyPath))

SetProperty(values) ==
  /\ Running
  /\ \E id \in SubIds, value \in values :
       Commit(setProperty(Begin("setProperty"), id, value))

SetPropertyByPath(values) ==
  /\ Running
  /\ \E o \in ObjectPaths, p \in PropertyPaths, value \in values :
       \E after \in setPropertyByPath(Begin("setPropertyByPath"), o, p, value) :
         Commit(after)

\* frames of the server
ErrorFrame ==
  /\ Running
  /\ ws = "OPEN"
  /\ \E matched \in BOOLEAN, o \in ObjectPaths, p \in PropertyPaths :
       Commit(handleError(Begin("error"), matched, o, p))

SubscriptionsFrame(frames) ==
  /\ Running
  /\ ws = "OPEN"
  /\ \E subs \in frames :
       Commit(handleSubscriptionsUpdate(Begin("subscriptions"), subs))

\* the valuesChanged lists of up to n updates, each list about one subscription
UpdatesOfOneId(values, n) ==
  UNION { SeqsUpTo({ u \in ValueUpdates : u.id = i /\ u.value \in values }, n) :
            i \in SubIds }

\* the valuesChanged lists of up to n updates
UpdatesOfAnyId(values, n) ==
  SeqsUpTo({ u \in ValueUpdates : u.value \in values }, n)

ValuesChangedFrame(frames) ==
  /\ Running
  /\ ws = "OPEN"
  /\ \E updates \in frames :
       Commit(handleValuesChanged(Begin("valuesChanged"), updates))

\* a frame of the server, as text
MessageFrame(messages) ==
  /\ Running
  /\ ws = "OPEN"
  /\ \E message \in messages :
       Commit(handleMessage(Begin("message"), message))

----------------------------------------------------------------------------
(* Error handling of value updates: one requestor, snapshots and value       *)
(* frames of the server, a socket that may go bad and is reconnected.        *)

HealthSnapshots == Snapshots(SnapshotEntries, MaxSnapshot)
HealthUpdates == UpdatesOfOneId({NumberValue, ErrorValue}, MaxUpdates)

NextHealth ==
  \/ InitModule({TRUE}, {FALSE})
  \/ WsOpen
  \/ TransportFault(0)
  \/ ReconnectTimerFired({FALSE})
  \/ SubscribeToVariable({"f1"}, SmallOptions)
  \/ SubscriptionsFrame(HealthSnapshots)
  \/ ValuesChangedFrame(HealthUpdates)

SpecHealth == Init /\ [][NextHealth]_vars

----------------------------------------------------------------------------
(* Claims on the error handling of value updates *)

\* the number of unsubscribe frames for id among the frames of the last step
UnsubscribesSent(id) ==
  Cardinality({ n \in DOMAIN sent : sent[n] = UnsubscribeFrame(id) })

\* C3 as stated: three consecutive error updates for an Active id send exactly
\* one unsubscribe frame for it and remove the entry and its index entry; no
\* other update sends an unsubscribe frame for the id.
C3_ExactlyOneUnsubscribe ==
  lastOp = "valuesChanged" =>
    /\ \A t \in tripped :
         /\ UnsubscribesSent(t.id) = 1
         /\ t.id \notin DOMAIN subscriptions
         /\ t.feedbackId \notin DOMAIN feedbackIdToSubscriptionId
    /\ \A i \in SubIds \ { t.id : t \in tripped } : UnsubscribesSent(i) = 0

\* C3 amended: the third consecutive error update removes the entry and its
\* index entry and sends one unsubscribe frame for the id, or none when
\* ws.send threw on it; then the connection is dropped with every table empty.
C3_OneUnsubscribeUnlessSendThrew ==
  lastOp = "valuesChanged" =>
    /\ \A t \in tripped :
         /\ t.id \notin DOMAIN subscriptions
         /\ t.feedbackId \notin DOMAIN feedbackIdToSubscriptionId
         /\ \/ UnsubscribesSent(t.id) = 1
            \/ /\ UnsubscribesSent(t.id) = 0
               /\ Len(sendThrew) = 1
               /\ ws = "null"
               /\ subscriptions = Empty
               /\ feedbackIdToSubscriptionId = Empty
               /\ pendingSubscriptions = Empty
    /\ Cardinality({ t \in tripped : UnsubscribesSent(t.id) = 0 }) <= 1
    /\ \A i \in SubIds \ { t.id : t \in tripped } : UnsubscribesSent(i) = 0

C3_Witness ==
  /\ lastOp = "valuesChanged"
  /\ \E t \in tripped : sent = << UnsubscribeFrame(t.id) >>
  /\ sendThrew = << >>
  /\ subscriptions # Empty

\* C4: a good update resets the error count, so the count of an Active entry
\* equals its run of consecutive error updates and stays below the threshold,
\* and a value frame unsubscribes no id whose run did not reach the threshold.
C4_GoodUpdateResetsErrorCount ==
  /\ \A i \in DOMAIN subscriptions :
       /\ subscriptions[i].errorCount < ErrorThreshold
       /\ subscriptions[i].errorCount = errRun[i]
       /\ subscriptions[i].value # ErrorValue => subscriptions[i].errorCount = 0
  /\ lastOp = "valuesChanged" =>
       \A n \in DOMAIN sent : \E t \in tripped : sent[n] = UnsubscribeFrame(t.id)

\* error, error, good, error, error: still Active, nothing unsubscribed
C4_Witness ==
  /\ lastOp = "valuesChanged"
  /\ sent = << >>
  /\ \E i \in recovered :
       /\ errRun[i] = ErrorThreshold - 1
       /\ subscriptions[i].errorCount = ErrorThreshold - 1

----------------------------------------------------------------------------
(* The registry: one open connection, the outward API called in any order   *)
(* by two requestors, snapshots of the server.                              *)

RegistrySnapshots == Snapshots(SnapshotEntries, MaxSnapshot)

NextRegistry ==
  \/ InitModule({TRUE}, {FALSE})
  \/ WsOpen
  \/ SubscribeToVariable(FeedbackIds, SmallOptions)
  \/ UnsubscribeFromVariable(FeedbackIds)
  \/ CheckAndUpdateSubscription(FeedbackIds, SmallOptions)
  \/ SubscriptionsFrame(RegistrySnapshots)

SpecRegistry == Init /\ [][NextRegistry]_vars

\* the ids the reconciliation of snapshot subs is to track, given the Pending
\* table pend and the Active table act it starts from: an entry is tracked when
\* its key is Pending and no earlier entry of the snapshot used that Pending
\* entry up, or when its id is Active already
Tracked(subs, pend, act) ==
  { subs[j].id :
      j \in { j \in DOMAIN subs :
                \/ /\ Key(subs[j].objectPath, subs[j].propertyPath) \in DOMAIN pend
                   /\ \A i \in 1..(j - 1) :
                        Key(subs[i].objectPath, subs[i].propertyPath)
                          # Key(subs[j].objectPath, subs[j].propertyPath)
                \/ subs[j].id \in DOMAIN act } }

\* C2: whatever snapshot arrives in a reachable state, handleSubscriptionsUpdate
\* leaves an Active table whose ids are exactly those of the snapshot entries
\* that matched a Pending key or a prior Active id; the requestor index is
\* rebuilt with it.
C2_SnapshotReplacesActive ==
  ws = "OPEN" =>
    \A subs \in RegistrySnapshots :
      LET after == handleSubscriptionsUpdate(State, subs)
      IN /\ DOMAIN after.subscriptions =
              Tracked(subs, pendingSubscriptions, subscriptions)
         /\ \A i \in DOMAIN after.subscriptions : after.subscriptions[i].id = i
         /\ \A f \in DOMAIN after.feedbackIdToSubscriptionId :
              after.feedbackIdToSubscriptionId[f] \in DOMAIN after.subscriptions

\* a snapshot was handled that kept one entry, with a key still Pending
C2_Witness ==
  /\ lastOp = "subscriptions"
  /\ Cardinality(DOMAIN subscriptions) = 1
  /\ pendingSubscriptions # Empty
  /\ \E subs \in RegistrySnapshots :
       /\ Len(subs) = 2
       /\ Cardinality(Tracked(subs, pendingSubscriptions, subscriptions)) = 1

\* the Pending keys and the Active ids a requestor owns
PendingOf(f) ==
  { k \in DOMAIN pendingSubscriptions : pendingSubscriptions[k].feedbackId = f }
ActiveOf(f) ==
  { i \in DOMAIN subscriptions : subscriptions[i].feedbackId = f }

\* C6 as stated: a requestor owns at most one subscription, Pending and Active
\* counted together.
C6_OneSubscriptionPerRequestor ==
  \A f \in FeedbackIds : Cardinality(PendingOf(f)) + Cardinality(ActiveOf(f)) <= 1

\* C7 as stated: unsubscribeFromVariable(f) on an open connection sends one
\* unsubscribe frame for each Active id of f and removes it with the index entry
\* of f, sends nothing when f is only Pending, removes the Pending entries of f
\* and leaves the entries of the other requestors alone.
C7_UnsubscribeTearsDownRequestor ==
  ws = "OPEN" =>
    \A f \in FeedbackIds :
      LET after == unsubscribeFromVariable(Begin("unsubscribeFromVariable"), f)
      IN /\ \A i \in ActiveOf(f) :
              /\ Cardinality({ n \in DOMAIN after.sent :
                                 after.sent[n] = UnsubscribeFrame(i) }) = 1
              /\ i \notin DOMAIN after.subscriptions
         /\ f \notin DOMAIN after.feedbackIdToSubscriptionId
         /\ ActiveOf(f) = {} => after.sent = << >>
         /\ \A k \in PendingOf(f) : k \notin DOMAIN after.pendingSubscriptions
         /\ \A i \in (DOMAIN subscriptions) \ ActiveOf(f) :
              /\ i \in DOMAIN after.subscriptions
              /\ after.subscriptions[i] = subscriptions[i]
         /\ \A k \in (DOMAIN pendingSubscriptions) \ PendingOf(f) :
              /\ k \in DOMAIN after.pendingSubscriptions
              /\ after.pendingSubscriptions[k] = pendingSubscriptions[k]
         /\ \A g \in (DOMAIN feedbackIdToSubscriptionId) \ {f} :
              /\ g \in DOMAIN after.feedbackIdToSubscriptionId
              /\ after.feedbackIdToSubscriptionId[g] = feedbackIdToSubscriptionId[g]

----------------------------------------------------------------------------
(* The connection: configuration, shutdown, socket events, the reconnect    *)
(* timer, a socket that may go bad, and two requestors using the API.       *)

ConnectionSnapshots == Snapshots(SnapshotEntries, MaxSnapshot)

NextConnection ==
  \/ InitModule(BOOLEAN, BOOLEAN)
  \/ ConfigUpdated(BOOLEAN, BOOLEAN)
  \/ Destroy
  \/ WsOpen
  \/ WsClose
  \/ TransportFault(MaxSendsBeforeFault)
  \/ ReconnectTimerFired(BOOLEAN)
  \/ AddFeedback({"f1"}, SmallOptions)
  \/ SubscribeToVariable({"f2"}, SmallOptions)
  \/ UnsubscribeFromVariable(FeedbackIds)
  \/ SetProperty({NumberValue})
  \/ SetPropertyByPath({NumberValue})
  \/ SubscriptionsFrame(ConnectionSnapshots)

SpecConnection == Init /\ [][NextConnection]_vars

\* C1 as stated: while the transport is not open the Active table, the
\* requestor index and the Pending table are empty.
C1_NotOpenMeansEmpty ==
  ws # "OPEN" =>
    /\ subscriptions = Empty
    /\ feedbackIdToSubscriptionId = Empty
    /\ pendingSubscriptions = Empty

\* C8 as stated: isConnectionReady() is true only while the transport exists
\* and is open.
C8_ReadyOnlyWhenOpen ==
  isConnectionReady(State) => ws = "OPEN"

\* C10: every send() that hit a send error returned false with the transport
\* dropped, the three tables empty, the sweep timer cancelled and, reconnection
\* being wanted, the reconnect timer armed.
C10_SendErrorClosesAndSchedules ==
  \A n \in DOMAIN sendThrew :
    /\ sendThrew[n].returned = FALSE
    /\ sendThrew[n].ws = "null"
    /\ sendThrew[n].subscriptions = Empty
    /\ sendThrew[n].feedbackIdToSubscriptionId = Empty
    /\ sendThrew[n].pendingSubscriptions = Empty
    /\ sendThrew[n].pendingCleanupTimer = "none"
    /\ sendThrew[n].shouldReconnect => sendThrew[n].reconnectTimer = "armed"

\* a send of unsubscribeFromVariable threw while reconnection was wanted and
\* two entries were tracked
C10_Witness ==
  /\ lastOp = "unsubscribeFromVariable"
  /\ sendThrew # << >>
  /\ sendThrew[1].shouldReconnect
  /\ sendThrew[1].tracked = 2
  /\ reconnectTimer = "armed"

----------------------------------------------------------------------------
(* The sweep of the Pending table: one connection, the clock, the sweep     *)
(* timer, subscribe requests, snapshots and error frames of the server.     *)

SweepSnapshots == Snapshots(SnapshotEntries, MaxSnapshot)

NextSweep ==
  \/ InitModule({TRUE}, {FALSE})
  \/ WsOpen
  \/ WsClose
  \/ ReconnectTimerFired({FALSE})
  \/ Tick
  \/ PendingCleanupTimerFired
  \/ SubscribeToVariable(FeedbackIds, SmallOptions)
  \/ SubscriptionsFrame(SweepSnapshots)
  \/ ErrorFrame

SpecSweep == Init /\ [][NextSweep]_vars

\* C5 as stated: a sweep removes every Pending entry older than the timeout
\* and sets the variable of its requestor to "ERROR" once.
C5_SweepReportsError ==
  [][lastOp' = "sweep" =>
       \A k \in DOMAIN pendingSubscriptions :
         pendingSubscriptions[k].age > PendingTimeout =>
           /\ k \notin DOMAIN pendingSubscriptions'
           /\ varsSet'[pendingSubscriptions[k].variableName] = << "ERROR" >>]_vars

----------------------------------------------------------------------------
(* Companion: feedbacks are placed, edited and removed, their callbacks are *)
(* re-evaluated when the module asks for it; the server sends snapshots and *)
(* error values.                                                            *)

CompanionSnapshots == Snapshots(SnapshotEntries, MaxSnapshot)
CompanionUpdates == UpdatesOfOneId({ErrorValue}, MaxUpdates)

NextCompanion ==
  \/ InitModule({TRUE}, {FALSE})
  \/ WsOpen
  \/ AddFeedback(FeedbackIds, SmallOptions)
  \/ EditFeedback(SmallOptions)
  \/ RemoveFeedback
  \/ EvaluateFeedback
  \/ SubscriptionsFrame(CompanionSnapshots)
  \/ ValuesChangedFrame(CompanionUpdates)

SpecCompanion == Init /\ [][NextCompanion]_vars

\* C9 as stated: once a requestor was force-unsubscribed, no subscribe frame is
\* sent for it by a step that is not a request of the caller: the re-evaluation
\* of its callback, which the module asks for, sends nothing and leaves it
\* without a new Pending entry.
C9_NoResubscribeAfterForcedUnsubscribe ==
  [][lastOp' = "callback" =>
       \A f \in forced \cap (toCheck \ toCheck') :
         /\ sent' = << >>
         /\ \A k \in DOMAIN pendingSubscriptions' :
              pendingSubscriptions'[k].feedbackId = f =>
                k \in DOMAIN pendingSubscriptions]_vars

----------------------------------------------------------------------------
(* Reconnection: configuration, shutdown, socket events and a socket that   *)
(* may go bad; the reconnect timer, once armed, fires unless it is          *)
(* cancelled.                                                               *)

NextReconnect ==
  \/ InitModule(BOOLEAN, BOOLEAN)
  \/ ConfigUpdated(BOOLEAN, BOOLEAN)
  \/ Destroy
  \/ WsOpen
  \/ WsClose
  \/ TransportFault(MaxSendsBeforeFault)
  \/ ReconnectTimerFired(BOOLEAN)
  \/ SubscribeToVariable(FeedbackIds, SmallOptions)
  \/ SubscriptionsFrame(Snapshots(SnapshotEntries, MaxSnapshot))

SpecReconnect ==
  Init /\ [][NextReconnect]_vars /\ WF_vars(ReconnectTimerFired(BOOLEAN))

\* the operator ended the connection and reconnection is not wanted
OperatorDisconnected ==
  \/ lastOp = "destroy"
  \/ lastOp = "configUpdated" /\ ~shouldReconnect

\* C11: a close event of the socket finds reconnection wanted and arms the
\* reconnect timer, after which the timer's callback runs connect() unless the
\* operator reconfigures or shuts down first; destroy(), and configUpdated()
\* that leaves reconnection unwanted, leave no reconnect timer armed, and the
\* timer's callback only ever runs while reconnection is wanted.
C11_CloseArmsReconnect ==
  /\ [](lastOp = "close" => shouldReconnect /\ reconnectTimer = "armed")
  /\ (lastOp = "close") ~>
       (lastOp = "reconnectTimer" \/ lastOp = "destroy" \/ lastOp = "configUpdated")
  /\ [](OperatorDisconnected => reconnectTimer = "none" /\ ws = "null")
  /\ [](lastOp = "reconnectTimer" => shouldReconnect)

\* the socket closed on its own and the reconnect timer is armed
C11_Witness ==
  /\ lastOp = "close"
  /\ shouldReconnect
  /\ reconnectTimer = "armed"
  /\ ws = "CLOSED"

----------------------------------------------------------------------------
(* Shutdown: a connection with both timers, a socket that may close or go   *)
(* bad, requestors that fill the tables and the options cache, and          *)
(* destroy() at any moment.                                                 *)

NextShutdown ==
  \/ InitModule({TRUE}, BOOLEAN)
  \/ Destroy
  \/ WsOpen
  \/ WsClose
  \/ TransportFault(MaxSendsBeforeFault)
  \/ ReconnectTimerFired(BOOLEAN)
  \/ Tick
  \/ PendingCleanupTimerFired
  \/ CheckAndUpdateSubscription({"f1"}, SmallOptions)
  \/ SubscribeToVariable({"f2"}, SmallOptions)
  \/ SubscriptionsFrame(Snapshots(SnapshotEntries, MaxSnapshot))

SpecShutdown == Init /\ [][NextShutdown]_vars

\* C12: once destroy() has returned both timers are unarmed, the socket is
\* released, shouldReconnect and connectionReady are false and the four tables
\* are empty; no timer callback and no socket event takes a step afterwards.
C12_DestroyIsFinal ==
  /\ [](phase = "destroyed" =>
          /\ reconnectTimer = "none"
          /\ pendingCleanupTimer = "none"
          /\ ws = "null"
          /\ ~shouldReconnect
          /\ ~connectionReady
          /\ subscriptions = Empty
          /\ feedbackIdToSubscriptionId = Empty
          /\ pendingSubscriptions = Empty
          /\ feedbackOptionsCache = Empty)
  /\ [][phase = "destroyed" => phase' = "destroyed" /\ lastOp' = "destroy"]_vars

\* destroy() has run on an open connection that had Active entries
C12_Witness ==
  /\ phase = "destroyed"
  /\ lastOp = "destroy"
  /\ connection_status = "Connected"
  /\ variableDefinitions # {}

----------------------------------------------------------------------------
(* Claims on error frames *)

----------------------------------------------------------------------------
(* Claims on sessions *)

\* C14: a connection attempt starts with the Active table, the requestor index
\* and the Pending table empty, so when the new socket opens nothing of an
\* earlier session is left: after the open handler the Pending entries are the
\* ones it subscribed for the placed feedbacks, and the first snapshot makes
\* Active only entries whose key is among them.
C14_NewSessionStartsEmpty ==
  /\ ws = "CONNECTING" =>
       /\ subscriptions = Empty
       /\ feedbackIdToSubscriptionId = Empty
       /\ pendingSubscriptions = Empty
  /\ lastOp = "open" =>
       /\ subscriptions = Empty
       /\ feedbackIdToSubscriptionId = Empty
       /\ \A k \in DOMAIN pendingSubscriptions :
            LET f == pendingSubscriptions[k].feedbackId
            IN /\ pendingSubscriptions[k].age = 0
               /\ f \in DOMAIN feedbacks
               /\ k = Key(feedbacks[f].objectPath, feedbacks[f].propertyPath)
       /\ \A subs \in Snapshots(SnapshotEntries, MaxSnapshot) :
            LET after == handleSubscriptionsUpdate(State, subs)
            IN \A i \in DOMAIN after.subscriptions :
                 /\ Key(after.subscriptions[i].objectPath,
                        after.subscriptions[i].propertyPath)
                      \in DOMAIN pendingSubscriptions
                 /\ after.subscriptions[i].value = Undefined

\* a socket has opened after an earlier session had Active entries, and the
\* open handler has subscribed again
C14_Witness ==
  /\ lastOp = "open"
  /\ ws = "OPEN"
  /\ variableDefinitions # {}
  /\ pendingSubscriptions # Empty

\* C15: in every reachable state with an open connection, handling a snapshot a
\* second time right after the first changes neither the Active table, with the
\* requestor, variable name, value, timestamps and error count of every entry,
\* nor the requestor index, nor the Pending table.
C15_ReconciliationIdempotent ==
  ws = "OPEN" =>
    \A subs \in HealthSnapshots :
      LET once == handleSubscriptionsUpdate(State, subs)
          twice == handleSubscriptionsUpdate(once, subs)
      IN /\ twice.subscriptions = once.subscriptions
         /\ twice.feedbackIdToSubscriptionId = once.feedbackIdToSubscriptionId
         /\ twice.pendingSubscriptions = once.pendingSubscriptions

\* a snapshot was handled that carried an entry with a value and errors over,
\* and handling a snapshot of two entries again leaves the tables as they are
C15_Witness ==
  /\ lastOp = "subscriptions"
  /\ \E i \in DOMAIN subscriptions :
       /\ subscriptions[i].value # Undefined
       /\ subscriptions[i].errorCount > 0
  /\ \E subs \in HealthSnapshots :
       /\ Len(subs) = 2
       /\ handleSubscriptionsUpdate(State, subs).subscriptions = subscriptions
       /\ Cardinality(DOMAIN subscriptions) = 2

----------------------------------------------------------------------------
(* Claims on the size of the Active table *)

\* the distinct keys of the entries of a snapshot
SnapshotKeys(subs) ==
  { Key(subs[j].objectPath, subs[j].propertyPath) : j \in DOMAIN subs }

----------------------------------------------------------------------------
(* Claims on the projection of values *)

\* C17 as stated: in every reachable state with an open connection, a value
\* frame with one update that is no error object, for an Active id, sets the
\* variable of the entry once, to the received value when it is a primitive
\* and to its JSON text when it is composite, and
\* getSubscriptionValueByFeedbackId of the requestor of the entry then returns
\* the received value.
C17_ValueProjected ==
  ws = "OPEN" =>
    \A i \in DOMAIN subscriptions : \A value \in Primitives \cup {ObjectValue} :
      LET after == handleValuesChanged(
                     Begin("valuesChanged"),
                     << [id |-> i, value |-> value, changeTimestamp |-> TimeStamp,
                         messageTimestamp |-> TimeStamp] >>)
      IN /\ after.varsSet[subscriptions[i].variableName] =
              << IF value \in Primitives THEN value ELSE JSONstringify(value) >>
         /\ after.subscriptions[i].value = value
         /\ getSubscriptionValueByFeedbackId(after, subscriptions[i].feedbackId) = value

----------------------------------------------------------------------------
(* Claims on the module variables *)

\* C18 as stated: the dynamic variables defined are the variable names of the
\* Active entries.
C18_DefinitionsFollowActive ==
  variableDefinitions =
    { subscriptions[i].variableName : i \in DOMAIN subscriptions }

\* C19 as stated: once set, connection_status reads "Connected" exactly when
\* the socket is open and "Disconnected" otherwise.
C19_StatusFollowsTransport ==
  connection_status # Undefined =>
    /\ ws = "OPEN" => connection_status = "Connected"
    /\ ws # "OPEN" => connection_status = "Disconnected"

----------------------------------------------------------------------------
(* Claims on changed options *)

\* the call checkAndUpdateSubscription(f, options) in the current state
UpdatedOptions(f, options) ==
  checkAndUpdateSubscription(Begin("checkAndUpdateSubscription"), f,
                             options.variableName, options.objectPath,
                             options.propertyPath)

\* f has cached options other than options and an Active entry, on an open socket
OptionsChanged(f, options) ==
  /\ ws = "OPEN"
  /\ f \in DOMAIN feedbackOptionsCache
  /\ feedbackOptionsCache[f] # options
  /\ hasSubscriptionByFeedbackId(State, f)

\* what C20 expects of the call: the unsubscribe frame for the Active id of f,
\* then the subscribe frame for the new key; the entry gone, the new options
\* cached, and one Pending entry of f, under the new key
TornDownAndResubscribed(f, options, after) ==
  LET i == feedbackIdToSubscriptionId[f]
      key == Key(options.objectPath, options.propertyPath)
  IN /\ after.sent = << UnsubscribeFrame(i),
                        SubscribeFrame(options.objectPath, options.propertyPath) >>
     /\ i \notin DOMAIN after.subscriptions
     /\ f \notin DOMAIN after.feedbackIdToSubscriptionId
     /\ f \in DOMAIN after.feedbackOptionsCache
     /\ after.feedbackOptionsCache[f] = options
     /\ { k \in DOMAIN after.pendingSubscriptions :
            after.pendingSubscriptions[k].feedbackId = f } = {key}
     /\ after.pendingSubscriptions[key].variableName = options.variableName

----------------------------------------------------------------------------
(* Self-healing: feedbacks placed by Companion, a socket that may close and *)
(* is reconnected, a server whose snapshots may leave a subscription out.   *)
(* A callback that is due runs, a socket that is connecting opens, an armed *)
(* reconnect timer fires, and the server answers with a snapshot that lists *)
(* what the client tracks and what it has asked for.                        *)

HealingSnapshots == Snapshots(SnapshotEntries, MaxSnapshot)

\* the snapshots of a server that has kept every Active entry of the client
\* and has granted every outstanding subscribe request
ConfirmingSnapshots ==
  { subs \in HealingSnapshots :
      /\ \A i \in DOMAIN subscriptions :
           \E j \in DOMAIN subs :
             /\ subs[j].id = i
             /\ subs[j].objectPath = subscriptions[i].objectPath
             /\ subs[j].propertyPath = subscriptions[i].propertyPath
      /\ DOMAIN pendingSubscriptions \subseteq SnapshotKeys(subs) }

NextHealing ==
  \/ InitModule({TRUE}, {FALSE})
  \/ WsOpen
  \/ WsClose
  \/ ReconnectTimerFired({FALSE})
  \/ AddFeedback(FeedbackIds, SmallOptions)
  \/ EvaluateFeedback
  \/ SubscriptionsFrame(HealingSnapshots)

SpecHealing ==
  /\ Init /\ [][NextHealing]_vars
  /\ WF_vars(WsOpen)
  /\ WF_vars(ReconnectTimerFired({FALSE}))
  /\ \A f \in FeedbackIds : WF_vars(EvaluateFeedback /\ f \notin toCheck')
  /\ WF_vars(SubscriptionsFrame(ConfirmingSnapshots))

\* the feedback f is placed and has no Active entry for the key of its options
Dropped(f) ==
  /\ f \in DOMAIN feedbacks
  /\ ~ \E i \in DOMAIN subscriptions :
         /\ subscriptions[i].feedbackId = f
         /\ subscriptions[i].objectPath = feedbacks[f].objectPath
         /\ subscriptions[i].propertyPath = feedbacks[f].propertyPath

\* the server grants what is asked of it: a snapshot leaves no request Pending
ServerConfirms ==
  [][lastOp' = "subscriptions" => pendingSubscriptions' = Empty]_vars

\* C21 as stated: when from some moment on the socket stays open and every
\* snapshot lists the keys asked for, a placed feedback without an Active entry
\* for the key of its options gets one again.
C21_DroppedEntryComesBack ==
  (<>[](ws = "OPEN") /\ <>ServerConfirms) =>
    \A f \in FeedbackIds : (Dropped(f) ~> ~Dropped(f))

----------------------------------------------------------------------------
(* Claims on requests made while the socket is not open *)

----------------------------------------------------------------------------
(* Claims on promoted entries *)

\* the entries of snapshot subs that the reconciliation matches to a Pending
\* entry of the table pend: the first entry of each Pending key
MatchedToPending(subs, pend) ==
  { j \in DOMAIN subs :
      /\ Key(subs[j].objectPath, subs[j].propertyPath) \in DOMAIN pend
      /\ \A i \in 1..(j - 1) :
           Key(subs[i].objectPath, subs[i].propertyPath)
             # Key(subs[j].objectPath, subs[j].propertyPath) }

\* C23 as stated: whatever snapshot arrives in a reachable state, the Active
\* entry made for a snapshot entry that matched a Pending entry has no value and
\* no timestamps, also when the Active table held an entry with that id before.
C23_PromotedEntryIsFresh ==
  ws = "OPEN" =>
    \A subs \in CompanionSnapshots :
      LET after == handleSubscriptionsUpdate(State, subs)
      IN \A j \in MatchedToPending(subs, pendingSubscriptions) :
           /\ subs[j].id \in DOMAIN after.subscriptions
           /\ after.subscriptions[subs[j].id].value = Undefined
           /\ after.subscriptions[subs[j].id].changeTimestamp = NoTimestamp
           /\ after.subscriptions[subs[j].id].messageTimestamp = NoTimestamp

----------------------------------------------------------------------------
(* Requests the server never answers: one open connection, the clock and    *)
(* the sweep timer, feedbacks placed by Companion and re-evaluated when the *)
(* module asks for it, and a server that knows track:track_1 only, so that  *)
(* a request for screen2:screen_1 is neither confirmed nor rejected. Time   *)
(* passes and a timer that is due fires.                                    *)

\* snapshots that list track:track_1 only
UnansweredSnapshots ==
  Snapshots({ e \in SnapshotEntries : e.objectPath = "track:track_1" }, MaxSnapshot)
UnansweredUpdates == UpdatesOfOneId({NumberValue}, 1)

\* the key the server never answers
UnansweredKey == Key("screen2:screen_1", "object.lengthInBeats")

NextUnanswered ==
  \/ InitModule({TRUE}, {FALSE})
  \/ WsOpen
  \/ Tick
  \/ PendingCleanupTimerFired
  \/ AddFeedback(FeedbackIds, SmallOptions)
  \/ EvaluateFeedback
  \/ SubscriptionsFrame(UnansweredSnapshots)
  \/ ValuesChangedFrame(UnansweredUpdates)

SpecUnanswered ==
  /\ Init /\ [][NextUnanswered]_vars
  /\ WF_vars(Tick)
  /\ WF_vars(PendingCleanupTimerFired)

\* C24 as stated: on a connection that stays open, a Pending entry whose key
\* the server neither confirms nor rejects is removed in the end, also while
\* the callback of its feedback is evaluated again with the same options.
C24_UnansweredPendingExpires ==
  (UnansweredKey \in DOMAIN pendingSubscriptions)
    ~> (UnansweredKey \notin DOMAIN pendingSubscriptions)

----------------------------------------------------------------------------
(* Claims on a subscribe request whose send fails *)

\* the call subscribeToVariable(f, options) in the current state
Requested(f, options) ==
  subscribeToVariable(Begin("subscribeToVariable"), f, options.variableName,
                      options.objectPath, options.propertyPath)

\* C25 as stated: when ws.send throws on the subscribe frame of a subscribe
\* request, the Pending entry of the request is registered all the same, and
\* the send is tried once.
C25_FailedSendKeepsPending ==
  ws = "OPEN" /\ sendFault = 0 =>
    \A f \in FeedbackIds, options \in Options :
      LET after == Requested(f, options)
          key == Key(options.objectPath, options.propertyPath)
      IN /\ Len(after.sendThrew) = 1
         /\ after.sent = << >>
         /\ key \in DOMAIN after.pendingSubscriptions
         /\ after.pendingSubscriptions[key].feedbackId = f

\* C25 amended: when ws.send throws on the subscribe frame of a subscribe
\* request, the send is tried once, no frame is written, no Pending entry is
\* registered and no placeholder value is set; the connection is dropped with
\* the tables empty and, reconnection being wanted, the reconnect timer armed.
C25_FailedSendRegistersNothing ==
  ws = "OPEN" /\ sendFault = 0 =>
    \A f \in FeedbackIds, options \in Options :
      LET after == Requested(f, options)
      IN /\ Len(after.sendThrew) = 1
         /\ after.sent = << >>
         /\ after.varsSet = NoVarsSet
         /\ after.pendingSubscriptions = Empty
         /\ after.subscriptions = Empty
         /\ after.feedbackIdToSubscriptionId = Empty
         /\ after.ws = "null"
         /\ after.shouldReconnect => after.reconnectTimer = "armed"

\* a subscribe request whose send threw while entries were tracked
C25_Witness ==
  /\ lastOp = "subscribeToVariable"
  /\ Len(sendThrew) = 1
  /\ sendThrew[1].tracked > 0
  /\ sent = << >>
  /\ pendingSubscriptions = Empty
  /\ reconnectTimer = "armed"

----------------------------------------------------------------------------
(* Claims on a second request for a Pending key *)

\* C26 as stated: a subscribe request for a key that has a Pending entry sends
\* no frame and leaves the Pending entry, with its requestor, variable name and
\* age, as it is.
C26_SecondRequestIgnored ==
  ws = "OPEN" =>
    \A f \in FeedbackIds, options \in Options :
      LET after == Requested(f, options)
          key == Key(options.objectPath, options.propertyPath)
      IN key \in DOMAIN pendingSubscriptions =>
           /\ after.sent = << >>
           /\ after.pendingSubscriptions = pendingSubscriptions

----------------------------------------------------------------------------
(* Claims on a cancelled request whose confirmation arrives late *)

\* the state after snapshot subs, handled after f has unsubscribed
CancelledThenConfirmed(f, subs) ==
  handleSubscriptionsUpdate(
    unsubscribeFromVariable(Begin("unsubscribeFromVariable"), f), subs)

\* the entries of snapshot subs that confirm a Pending key of f under an id
\* that is not Active
LateConfirmations(f, subs) ==
  { j \in DOMAIN subs :
      /\ Key(subs[j].objectPath, subs[j].propertyPath) \in PendingOf(f)
      /\ subs[j].id \notin DOMAIN subscriptions }

\* one value update for id
UpdateFor(id, value) ==
  << [id |-> id, value |-> value, changeTimestamp |-> TimeStamp,
      messageTimestamp |-> TimeStamp] >>

\* C27: in every reachable state with an open socket, when a requestor with a
\* Pending entry unsubscribes and a snapshot then lists the key of that entry
\* under a new id, the snapshot makes no Active entry for the id and no index
\* entry that points to it, and a value update for the id changes no table, sets
\* no variable and sends no frame.
C27_LateConfirmationIgnored ==
  ws = "OPEN" =>
    \A f \in FeedbackIds, subs \in RegistrySnapshots :
      LET cancelled == unsubscribeFromVariable(Begin("unsubscribeFromVariable"), f)
          after == CancelledThenConfirmed(f, subs)
      IN cancelled.ws = "OPEN" =>
           \A j \in LateConfirmations(f, subs) :
             /\ PendingOf(f) \cap DOMAIN cancelled.pendingSubscriptions = {}
             /\ subs[j].id \notin DOMAIN after.subscriptions
             /\ \A g \in DOMAIN after.feedbackIdToSubscriptionId :
                  after.feedbackIdToSubscriptionId[g] # subs[j].id
             /\ \A value \in Values :
                  LET later == handleValuesChanged(after, UpdateFor(subs[j].id, value))
                  IN /\ later.subscriptions = after.subscriptions
                     /\ later.feedbackIdToSubscriptionId = after.feedbackIdToSubscriptionId
                     /\ later.pendingSubscriptions = after.pendingSubscriptions
                     /\ later.variableDefinitions = after.variableDefinitions
                     /\ later.varsSet = after.varsSet
                     /\ later.sent = after.sent

\* f2 has a request outstanding while f1 has an Active entry; a snapshot of two
\* entries that keeps the entry of f1 and confirms the key of f2 under a new
\* id, handled after f2 has unsubscribed, leaves the entry of f1 alone
C27_Witness ==
  /\ ws = "OPEN"
  /\ lastOp = "subscribeToVariable"
  /\ PendingOf("f2") # {}
  /\ ActiveOf("f1") # {}
  /\ \E subs \in RegistrySnapshots :
       /\ Len(subs) = 2
       /\ LateConfirmations("f2", subs) # {}
       /\ DOMAIN CancelledThenConfirmed("f2", subs).subscriptions = ActiveOf("f1")

----------------------------------------------------------------------------
(* Claims on value updates for unknown ids *)

\* the valuesChanged frame values, handled in the current state
ValuesHandled(values) == handleValuesChanged(Begin("valuesChanged"), values)

\* C28: in every reachable state with an open socket, a value frame with one
\* update for an id that is not Active changes no table, sets no variable and
\* sends no frame (it only asks for the feedbacks to be checked), and a frame
\* that holds such an update before or after an update for an Active id leaves
\* what the frame with the update for the Active id alone leaves.
C28_UnknownIdIgnored ==
  ws = "OPEN" =>
    \A u \in SubIds \ DOMAIN subscriptions : \A v \in {NumberValue, ErrorValue} :
      /\ ValuesHandled(UpdateFor(u, v)) = checkFeedbacks(Begin("valuesChanged"))
      /\ \A i \in DOMAIN subscriptions : \A w \in {NumberValue, ErrorValue} :
           /\ ValuesHandled(UpdateFor(u, v) \o UpdateFor(i, w))
                = ValuesHandled(UpdateFor(i, w))
           /\ ValuesHandled(UpdateFor(i, w) \o UpdateFor(u, v))
                = ValuesHandled(UpdateFor(i, w))

\* a value frame was handled that has left one Active entry with errors
\* counted; a frame with an update for the other id and a good update for this
\* entry sets the variable of the entry once and resets its count
C28_Witness ==
  /\ ws = "OPEN"
  /\ lastOp = "valuesChanged"
  /\ \E i \in DOMAIN subscriptions : \E u \in SubIds \ DOMAIN subscriptions :
       LET after == ValuesHandled(UpdateFor(u, ErrorValue) \o UpdateFor(i, NumberValue))
       IN /\ subscriptions[i].errorCount = ErrorThreshold - 1
          /\ after.subscriptions[i].errorCount = 0
          /\ after.varsSet[subscriptions[i].variableName] = << NumberValue >>
          /\ after.sent = << >>

----------------------------------------------------------------------------
(* Claims on the reconnect timer *)

\* C29: in every reachable state the event loop holds one reconnect timeout
\* when this.reconnectTimer names a timeout that has not run, and none
\* otherwise; a timer is armed only while reconnection is wanted;
\* scheduleReconnect called a second time leaves one timeout, and called while
\* reconnection is not wanted it changes nothing.
C29_OneReconnectTimer ==
  /\ reconnectTimers = (IF reconnectTimer = "armed" THEN 1 ELSE 0)
  /\ reconnectTimer = "armed" => shouldReconnect
  /\ LET once == scheduleReconnect(State)
         twice == scheduleReconnect(once)
     IN /\ once.reconnectTimers <= 1
        /\ twice.reconnectTimers <= 1
        /\ shouldReconnect => twice.reconnectTimer = "armed" /\ twice.reconnectTimers = 1
  /\ ~shouldReconnect => scheduleReconnect(State) = State

\* the callback of the reconnect timer could not make a socket and has armed
\* the timer again
C29_Witness ==
  /\ lastOp = "reconnectTimer"
  /\ ws = "null"
  /\ reconnectTimer = "armed"
  /\ reconnectTimers = 1

----------------------------------------------------------------------------
(* Claims on connecting again *)

\* what connect(), and configUpdated() with a host, leave when they are called
\* in the current state and the socket can be made
Reconnected ==
  { connect(Begin("connect"), FALSE),
    configUpdated(Begin("configUpdated"), TRUE, FALSE) }

\* C30 as stated: connect(), and configUpdated() with the host it had, called
\* while the socket is connecting or open, keep the socket and leave the Active
\* table, the requestor index and the Pending table as they are.
C30_ConnectAgainIsNoOp ==
  ws \in {"CONNECTING", "OPEN"} =>
    \A after \in Reconnected :
      /\ after.ws = ws
      /\ after.subscriptions = subscriptions
      /\ after.feedbackIdToSubscriptionId = feedbackIdToSubscriptionId
      /\ after.pendingSubscriptions = pendingSubscriptions

----------------------------------------------------------------------------
(* The sweep timer: sessions that open, close, are reconfigured and shut    *)
(* down, a socket that may go bad, the clock, and one feedback that is      *)
(* subscribed again whenever a socket opens.                                *)

NextSweepTimer ==
  \/ InitModule({TRUE}, BOOLEAN)
  \/ ConfigUpdated(BOOLEAN, BOOLEAN)
  \/ Destroy
  \/ WsOpen
  \/ WsClose
  \/ TransportFault(MaxSendsBeforeFault)
  \/ ReconnectTimerFired(BOOLEAN)
  \/ Tick
  \/ PendingCleanupTimerFired
  \/ AddFeedback({"f1"}, SmallOptions)
  \/ UnsubscribeFromVariable({"f1"})

SpecSweepTimer == Init /\ [][NextSweepTimer]_vars

\* C31 as stated: the event loop holds one sweep timeout when
\* this.pendingCleanupTimer names a timeout that has not run, and none
\* otherwise; a sweep timer is armed only while the socket is open; starting
\* the timer twice leaves one timeout; the open handler leaves one armed, a
\* sweep runs on an open socket and arms the next one, and the close handler,
\* disconnect() and destroy() leave none.
C31_SweepTimerOnlyWhileOpen ==
  /\ pendingCleanupTimers = (IF pendingCleanupTimer = "armed" THEN 1 ELSE 0)
  /\ pendingCleanupTimer = "armed" => ws = "OPEN"
  /\ startPendingCleanupTimer(startPendingCleanupTimer(State)).pendingCleanupTimers = 1
  /\ lastOp = "open" => pendingCleanupTimers = 1
  /\ lastOp = "sweep" => ws = "OPEN" /\ pendingCleanupTimers = 1
  /\ lastOp \in {"close", "destroy", "configUpdated"} \/ sendThrew # << >> =>
       pendingCleanupTimers = 0

----------------------------------------------------------------------------
(* The protocol: one open connection, one requestor, and a server whose     *)
(* frames may be well formed, unparseable, without a known tag, or carry a  *)
(* payload that is malformed in whole or in part.                           *)

\* the lists of up to n items, each an entry of entries, null or without fields
ItemLists(entries, n) == SeqsUpTo(entries \cup {NullItem, EmptyItem}, n)

\* the lists with an item that is no entry
MalformedLists(entries, n) ==
  { q \in ItemLists(entries, n) : \E i \in DOMAIN q : q[i] \in {NullItem, EmptyItem} }

ProtocolUpdates == { u \in ValueUpdates : u.value \in {NumberValue, ErrorValue} }

\* a frame with one of the two payloads
SubscriptionsMessage(payload) ==
  [parses |-> TRUE, error |-> NoError, subscriptions |-> payload,
   valuesChanged |-> AbsentPayload]
ValuesChangedMessage(payload) ==
  [parses |-> TRUE, error |-> NoError, subscriptions |-> AbsentPayload,
   valuesChanged |-> payload]

\* a JSON text with none of the tags error, subscriptions, valuesChanged
UntaggedMessage == SubscriptionsMessage(AbsentPayload)

WellFormedMessages ==
  { SubscriptionsMessage(ListPayload(q)) : q \in Snapshots(SnapshotEntries, MaxSnapshot) }
    \cup { ValuesChangedMessage(ListPayload(q)) : q \in SeqsUpTo(ProtocolUpdates, 1) }

MalformedMessages ==
  {Unparseable, UntaggedMessage,
   SubscriptionsMessage(NotIterable), ValuesChangedMessage(NotIterable)}
    \cup { SubscriptionsMessage(ListPayload(q)) :
             q \in MalformedLists(SnapshotEntries, MaxSnapshot) }
    \cup { ValuesChangedMessage(ListPayload(q)) :
             q \in MalformedLists(ProtocolUpdates, MaxSnapshot) }

NextProtocol ==
  \/ InitModule({TRUE}, {FALSE})
  \/ WsOpen
  \/ SubscribeToVariable({"f1"}, SmallOptions)
  \/ MessageFrame(WellFormedMessages \cup MalformedMessages)

SpecProtocol == Init /\ [][NextProtocol]_vars

\* C32 as stated: in every reachable state with an open socket, a frame that
\* cannot be parsed, a frame without a known tag and a frame whose
\* subscriptions or valuesChanged payload is malformed in whole or in part
\* leave the Active table, with the value and the error count of every entry,
\* the Pending table and the requestor index as they are.
C32_MalformedFrameDropped ==
  ws = "OPEN" =>
    \A message \in MalformedMessages :
      LET after == handleMessage(Begin("message"), message)
      IN /\ after.subscriptions = subscriptions
         /\ after.pendingSubscriptions = pendingSubscriptions
         /\ after.feedbackIdToSubscriptionId = feedbackIdToSubscriptionId

----------------------------------------------------------------------------
(* Claims on reaching Connected *)

\* C33: the open handler, when it leaves the socket open, leaves
\* this.reconnectTimer cleared with no reconnect timeout in the event loop,
\* connectionReady true and one sweep timer armed with a full period to run;
\* and in every reachable state with an open socket no reconnect timer is armed.
C33_OpenClearsReconnectTimer ==
  /\ lastOp = "open" /\ ws = "OPEN" =>
       /\ reconnectTimer = "none"
       /\ reconnectTimers = 0
       /\ connectionReady
       /\ pendingCleanupTimer = "armed"
       /\ pendingCleanupTimers = 1
       /\ sweepLeft = PendingTimeout
  /\ ws = "OPEN" => reconnectTimer # "armed" /\ reconnectTimers = 0

\* a socket has opened after an earlier session had Active entries
C33_Witness ==
  /\ lastOp = "open"
  /\ ws = "OPEN"
  /\ variableDefinitions # {}
  /\ reconnectTimer = "none"
  /\ pendingCleanupTimer = "armed"
  /\ connectionReady

----------------------------------------------------------------------------
(* Sessions: a socket that closes and is reconnected, two requestors that   *)
(* subscribe, change their options, unsubscribe and set properties, and a   *)
(* server that sends snapshots and error values.                            *)

SessionUpdates == UpdatesOfOneId({ErrorValue}, MaxUpdates)

NextSession ==
  \/ InitModule({TRUE}, {FALSE})
  \/ WsOpen
  \/ WsClose
  \/ ReconnectTimerFired({FALSE})
  \/ CheckAndUpdateSubscription(FeedbackIds, SmallOptions)
  \/ UnsubscribeFromVariable(FeedbackIds)
  \/ SetProperty({NumberValue})
  \/ SetPropertyByPath({NumberValue})
  \/ SubscriptionsFrame(Snapshots(SnapshotEntries, MaxSnapshot))
  \/ ValuesChangedFrame(SessionUpdates)

SpecSession == Init /\ [][NextSession]_vars

\* the unsubscribe and set frames among the frames frames
IdFrames(frames) ==
  { n \in DOMAIN frames : frames[n].type \in {"unsubscribe", "set"} }

\* C34: every unsubscribe frame and every set frame written by a step carries
\* an id that was Active when the step began, and a step writes at most one
\* unsubscribe frame per id, before it removes the entry; an id becomes Active
\* only by a snapshot, and the Active table is empty whenever the socket is not
\* open, so an Active id was announced by a snapshot of the current session.
C34_SentIdsAreActive ==
  /\ [][\A n \in IdFrames(sent') :
          /\ sent'[n].id \in DOMAIN subscriptions
          /\ sent'[n].type = "unsubscribe" =>
               /\ sent'[n].id \notin DOMAIN subscriptions'
               /\ \A m \in IdFrames(sent') : sent'[m] = sent'[n] => m = n]_vars
  /\ [][lastOp' # "subscriptions" =>
          (DOMAIN subscriptions') \subseteq (DOMAIN subscriptions)]_vars
  /\ [](ws # "OPEN" => subscriptions = Empty)

\* a set frame was written for the one Active id, the other id not being Active
C34_Witness ==
  /\ lastOp = "setProperty"
  /\ DOMAIN subscriptions = {2}
  /\ sent = << SetFrame(2, NumberValue) >>

----------------------------------------------------------------------------
(* Claims on the requestor index *)

\* C35: in every reachable state each entry f -> i of the requestor index
\* points to an Active entry stored under i, with id i, whose requestor is f.
C35_IndexPointsToOwnEntry ==
  \A f \in DOMAIN feedbackIdToSubscriptionId :
    LET i == feedbackIdToSubscriptionId[f]
    IN /\ i \in DOMAIN subscriptions
       /\ subscriptions[i].id = i
       /\ subscriptions[i].feedbackId = f

\* the error threshold has removed the entry of one requestor and the index
\* still holds the entry of the other
C35_Witness ==
  /\ lastOp = "valuesChanged"
  /\ tripped # {}
  /\ feedbackIdToSubscriptionId # Empty
  /\ \A t \in tripped : t.feedbackId \notin DOMAIN feedbackIdToSubscriptionId

\* C36 as stated: in every reachable state the requestor index maps the
\* requestor of each Active entry to the id of the entry, so that
\* unsubscribeFromVariable of the requestor removes the entry and, on an open
\* socket, writes the unsubscribe frame for its id.
C36_NoOrphanedActiveEntry ==
  \A i \in DOMAIN subscriptions :
    LET f == subscriptions[i].feedbackId
        after == unsubscribeFromVariable(Begin("unsubscribeFromVariable"), f)
    IN /\ f \in DOMAIN feedbackIdToSubscriptionId
       /\ feedbackIdToSubscriptionId[f] = i
       /\ i \notin DOMAIN after.subscriptions
       /\ sendReturns(State) =>
            \E n \in DOMAIN after.sent : after.sent[n] = UnsubscribeFrame(i)

----------------------------------------------------------------------------
(* Two requestors on one connection: feedbacks placed by Companion, their   *)
(* callbacks evaluated when the module asks for it, and a server that       *)
(* counts references: it answers every subscribe request with a snapshot    *)
(* that lists each subscribed key once, always under the same id. A socket  *)
(* that is connecting opens, a callback that is due runs, and a request is  *)
(* answered.                                                                *)

\* the id the server gives to the subscriptions of an object
ServerId(objectPath) == IF objectPath = "track:track_1" THEN 1 ELSE 2

\* the objects subscribed at the server: asked for, or confirmed before
ServerObjects ==
  { o \in ObjectPaths :
      \/ \E p \in PropertyPaths : Key(o, p) \in DOMAIN pendingSubscriptions
      \/ \E i \in DOMAIN subscriptions : subscriptions[i].objectPath = o }

\* the snapshot that answers the outstanding requests
AnsweringSnapshots ==
  IF pendingSubscriptions = Empty THEN {}
  ELSE { subs \in Snapshots(SnapshotEntries, MaxSnapshot) :
           /\ Len(subs) = Cardinality(ServerObjects)
           /\ \A j \in DOMAIN subs :
                /\ subs[j].objectPath \in ServerObjects
                /\ subs[j].id = ServerId(subs[j].objectPath)
           /\ \A i, j \in DOMAIN subs : i < j => subs[i].id < subs[j].id }

NextTwoRequestors ==
  \/ InitModule({TRUE}, {FALSE})
  \/ WsOpen
  \/ AddFeedback(FeedbackIds, SmallOptions)
  \/ EvaluateFeedback
  \/ SubscriptionsFrame(AnsweringSnapshots)

SpecTwoRequestors ==
  /\ Init /\ [][NextTwoRequestors]_vars
  /\ WF_vars(WsOpen)
  /\ \A f \in FeedbackIds : WF_vars(EvaluateFeedback /\ f \notin toCheck')
  /\ WF_vars(SubscriptionsFrame(AnsweringSnapshots))

\* both feedbacks are placed with one key, on an open socket
SameKeyRequested ==
  /\ ws = "OPEN"
  /\ DOMAIN feedbacks = FeedbackIds
  /\ Key(feedbacks["f1"].objectPath, feedbacks["f1"].propertyPath)
       = Key(feedbacks["f2"].objectPath, feedbacks["f2"].propertyPath)

\* evaluating checkAndUpdateSubscription for a placed feedback with the
\* options it has writes no frame
Quiescent ==
  \A f \in DOMAIN feedbacks : UpdatedOptions(f, feedbacks[f]).sent = << >>

\* the requestor of every Active entry
Owners == [i \in DOMAIN subscriptions |-> subscriptions[i].feedbackId]

\* C37 as stated: once two feedbacks are placed with one key on an open
\* socket and the server confirms the key under one id, a state is reached
\* from which on the evaluation of checkAndUpdateSubscription for either of
\* them with unchanged options writes no subscribe frame and the requestor of
\* the Active entry stays the same.
C37_TwoRequestorsQuiesce ==
  /\ SameKeyRequested ~> []Quiescent
  /\ <>SameKeyRequested => <>[][Owners' = Owners]_vars

----------------------------------------------------------------------------
(* Claims on unchanged options *)

\* f has cached options options and its index entry names an Active entry
OptionsUnchanged(f, options) ==
  /\ f \in DOMAIN feedbackOptionsCache
  /\ feedbackOptionsCache[f] = options
  /\ hasSubscriptionByFeedbackId(State, f)

\* C38: in every reachable state, checkAndUpdateSubscription called for a
\* requestor with the options it has cached, while the requestor has an Active
\* entry, leaves the whole state as it is: no frame, no variable set, the
\* tables and the options cache unchanged; and so does the same call repeated.
C38_UnchangedOptionsNoOp ==
  \A f \in FeedbackIds, options \in Options :
    OptionsUnchanged(f, options) =>
      LET once == UpdatedOptions(f, options)
          twice == checkAndUpdateSubscription(once, f, options.variableName,
                                              options.objectPath, options.propertyPath)
      IN /\ once = Begin("checkAndUpdateSubscription")
         /\ twice = once

\* checkAndUpdateSubscription has run on an open socket and has written no
\* frame, both requestors having cached options and an Active entry
C38_Witness ==
  /\ lastOp = "checkAndUpdateSubscription"
  /\ ws = "OPEN"
  /\ sent = << >>
  /\ \A f \in FeedbackIds :
       /\ f \in DOMAIN feedbackOptionsCache
       /\ OptionsUnchanged(f, feedbackOptionsCache[f])

----------------------------------------------------------------------------
(* Claims on the balance of subscribe and unsubscribe frames *)

\* the number of frames of type type among frames
FramesOfType(frames, type) ==
  Cardinality({ n \in DOMAIN frames : frames[n].type = type })

\* the requestor f owns nothing and no frame of the last step is left to count
Fresh(f) ==
  /\ PendingOf(f) = {}
  /\ ActiveOf(f) = {}
  /\ f \notin DOMAIN feedbackIdToSubscriptionId

\* the snapshots that list the key of options
Confirming(options) ==
  { subs \in RegistrySnapshots :
      Key(options.objectPath, options.propertyPath) \in SnapshotKeys(subs) }

\* f subscribes with options and unsubscribes, and the snapshot later, in
\* flight meanwhile, is handled; the frames written are collected in sent
CancelledBeforeConfirmation(f, options, later) ==
  handleSubscriptionsUpdate(unsubscribeFromVariable(Requested(f, options), f), later)

\* f subscribes with options, the snapshot before is handled, f unsubscribes,
\* and the snapshot later is handled
CancelledAfterConfirmation(f, options, before, later) ==
  handleSubscriptionsUpdate(
    unsubscribeFromVariable(
      handleSubscriptionsUpdate(Requested(f, options), before), f),
    later)

\* C39 as stated: on an open socket, when a requestor that owns nothing
\* subscribes and later unsubscribes, and the confirmations of the server have
\* been handled, as many unsubscribe frames as subscribe frames have been
\* written, whether the server confirmed the key before the requestor
\* unsubscribed or after.
C39_SubscribeUnsubscribeBalanced ==
  ws = "OPEN" /\ sendFault = NoFault =>
    \A f \in FeedbackIds, options \in SmallOptions :
      Fresh(f) =>
        /\ \A later \in Confirming(options) :
             LET after == CancelledBeforeConfirmation(f, options, later)
             IN FramesOfType(after.sent, "unsubscribe")
                  = FramesOfType(after.sent, "subscribe")
        /\ \A before \in Confirming(options), later \in RegistrySnapshots :
             LET after == CancelledAfterConfirmation(f, options, before, later)
             IN FramesOfType(after.sent, "unsubscribe")
                  = FramesOfType(after.sent, "subscribe")

====
